---- MODULE Spec2Model ----
(***************************************************************************)
(* PredArb: market clustering (backend/app/grouping.py,                    *)
(* backend/app/tasks_grouping.py) and opportunity scoring                  *)
(* (backend/app/tasks_analysis.py) over the Supabase store.                *)
(*                                                                         *)
(* Store tables are state variables.  Python lists are sequences, Python   *)
(* sets are sets; list(set(..)) yields the elements in an order that the   *)
(* interpreter's string hashing decides, so it depends on the hash seed of *)
(* the worker.  None is the empty sequence <<>> where a field is optional. *)
(***************************************************************************)
EXTENDS Integers, Sequences, FiniteSets, TLC

VARIABLES
    markets,      \* table markets: id -> row
    overrides,    \* table group_overrides: rows in select order
    vectors,      \* table embeddings: ids of the markets that have a vector
    call,         \* the latest compute_group_for_seed invocation on the store as
                  \* it is now, and its result (forgotten when the store is written)
    prev,         \* the result of the invocation before it, when it had identical inputs
    batch         \* the recompute_all invocation in progress or finished

VARIABLES
    market_snapshots,   \* table market_snapshots: market id -> its latest row, <<>> when none
    platform_fees,      \* table platform_fees: platform -> taker_bps
    groups,             \* table groups: rows in insertion (updated_at) order
    arb_opportunities,  \* table arb_opportunities: rows, opp_hash unique
    now,                \* wall clock, seconds
    run,                \* per worker: the compute_opportunities invocation it executes
    started,            \* how many invocations have begun
    overlapped,         \* two invocations were in progress at the same time
    attempted,          \* every opp_hash handed to _insert_opportunity_row so far
    faults              \* how many store calls have failed

VARIABLES
    calc          \* the latest call of a scoring or consensus function: its inputs and result

VARIABLES
    alerts_queue, \* table alerts_queue: rows in select order
    messages,     \* per alerts_queue row id: send_telegram_message calls and messages posted
    alert_run     \* the latest process_alerts_queue invocation: its arguments and result

alvars == <<alerts_queue, messages, alert_run>>

VARIABLES
    rl            \* the rate limiter: the clock, the Redis hash rl:<key>, each client's
                  \* position in acquire, how many acquires returned, and when the
                  \* limit-th and the (limit+1)-th did

VARIABLES
    recomputed    \* per seed market id: how many recomputes of it have stored a group

rvars == <<rl, recomputed>>

xvars == <<calc, alvars, rvars>>

gvars == <<overrides, vectors, call, prev>>

avars == <<market_snapshots, platform_fees, groups, arb_opportunities, now, run,
           started, overlapped, attempted, faults>>

vars == <<markets, gvars, batch, avars, xvars>>

----------------------------------------------------------------------------
(* Bounds of the model *)

MaxOverrides == 2

\* how many different string-hash seeds (PYTHONHASHSEED) the workers run with
NumHashSeeds == 2

\* the clock runs from ClockStart in steps of TickSec up to MaxClock
MaxClock == 150

TickSec == 60

\* how many store calls may fail
MaxFaults == 1

\* how many rows the groups table may hold
MaxGroupRows == 2

(* Program constants *)

MaxGroupsScanned == 200

RecomputeLimit == 200

PoolLimit == 1000
ShortlistK == 120
TopLimit == 100
MaxDays == 60
MinScore == 70

----------------------------------------------------------------------------
(* Generic helpers *)

Range(s) == {s[i] : i \in DOMAIN s}

Take(s, n) == SubSeq(s, 1, IF Len(s) < n THEN Len(s) ELSE n)

Abs(x) == IF x < 0 THEN -x ELSE x

\* [x for x in s if P(x)]
RECURSIVE SelectSeqIds(_, _)
SelectSeqIds(s, keep) ==
    IF s = <<>> THEN <<>>
    ELSE (IF Head(s) \in keep THEN <<Head(s)>> ELSE <<>>) \o SelectSeqIds(Tail(s), keep)

----------------------------------------------------------------------------
(* Identifiers and the market catalogue *)

ExistingIds == {"m1", "m2", "m3"}

\* "m4" is an id with no row in markets (a deleted or never-ingested market)
Ids == ExistingIds \cup {"m4"}

Actions == {"include", "exclude"}

\* list(S) for a Python set S of ids: the iteration order follows the string
\* hashes, which the process's hash seed decides.  Seed n iterates in the
\* order of IdOrder rotated by n places.
IdOrder == <<"m1", "m2", "m3", "m4">>

Rotate(s, n) == [i \in DOMAIN s |-> s[((i - 1 + n) % Len(s)) + 1]]

ListOfSet(S, hash_seed) == SelectSeqIds(Rotate(IdOrder, hash_seed), S)

\* Titles are abstract; rapidfuzz's max(token_sort_ratio, partial_ratio) of
\* two lower-cased titles is tabulated for them.
FuzzScore(a, b) ==
    IF a = b THEN 100
    ELSE IF {a, b} = {"btc 100k dec", "btc 100k by december"} THEN 88
    \* partial_ratio is 100 when one title is a substring of the other
    ELSE IF {a, b} \in {{"btc 100k dec", "100k dec"}, {"eth 100k dec", "100k dec"},
                        {"rain in london", "rain in london tomorrow"}} THEN 100
    ELSE IF {a, b} = {"btc 100k dec", "eth 100k dec"} THEN 75
    ELSE IF {a, b} \subseteq {"btc 100k dec", "btc 100k by december", "btc halving"} THEN 62
    ELSE 35

\* _extract_entities(title + " " + description): ENTITY_RE and TICKER_RE hits
_extract_entities(title) ==
    CASE title \in {"btc 100k dec", "btc 100k by december", "btc halving"} -> {"btc"}
      [] title \in {"eth 5k", "eth 100k dec"} -> {"eth"}
      [] OTHER -> {}

\* end_date is <<>> (None) or <<t>>, t counted in half days so that the
\* floor in timedelta.days is visible.
MarketRows ==
    [m \in ExistingIds |->
        CASE m = "m1" -> [id |-> "m1", title |-> "btc 100k dec", end_date |-> <<0>>,
                          platform |-> "polymarket", liquidity_usd |-> <<10>>,
                          updated_at |-> 3]
          [] m = "m2" -> [id |-> "m2", title |-> "btc 100k by december", end_date |-> <<80>>,
                          platform |-> "limitless", liquidity_usd |-> <<30>>,
                          updated_at |-> 2]
          [] m = "m3" -> [id |-> "m3", title |-> "btc 100k dec", end_date |-> <<>>,
                          platform |-> "polymarket", liquidity_usd |-> <<>>,
                          updated_at |-> 1]]

\* The grouping scenarios: m1 and m2 are ingested, m3 and m4 are not (yet).
\* m2 is either a near-duplicate of m1 that ends 40 days later, the same
\* ending 100 days later, or an unrelated market.
GroupingIds == {"m1", "m2", "m3"}

GroupingTables ==
    {[m \in {"m1", "m2"} |-> IF m = "m2" THEN v ELSE MarketRows[m]] :
        v \in {MarketRows["m2"],
                [MarketRows["m2"] EXCEPT !.end_date = <<200>>],
                [MarketRows["m2"] EXCEPT !.title = "eth 5k"]}}

----------------------------------------------------------------------------
(* grouping.py *)

\* abs((a - b).days) for two datetimes given in half days
TimedeltaDays(a, b) == (a - b) \div 2

end_date_within(a, b, max_days) ==
    IF a.end_date = <<>> \/ b.end_date = <<>> THEN TRUE
    ELSE Abs(TimedeltaDays(a.end_date[1], b.end_date[1])) <= max_days

\* shortlist_candidates._end_ok: the same test with the window written inline
_end_ok(t_end, c_end) ==
    IF t_end = <<>> \/ c_end = <<>> THEN TRUE
    ELSE Abs(TimedeltaDays(t_end[1], c_end[1])) <= MaxDays

\* scored.sort(key=lambda x: -x[1]): stable insertion by descending score
RECURSIVE InsertByScore(_, _)
InsertByScore(sorted, x) ==
    IF sorted = <<>> THEN <<x>>
    ELSE IF Head(sorted).score >= x.score THEN <<Head(sorted)>> \o InsertByScore(Tail(sorted), x)
    ELSE <<x>> \o sorted

RECURSIVE SortByScore(_)
SortByScore(s) ==
    IF s = <<>> THEN <<>>
    ELSE InsertByScore(SortByScore(SubSeq(s, 1, Len(s) - 1)), s[Len(s)])

\* (variant: a candidate is kept only when the two entity sets overlap)
RECURSIVE Scored_overlap_required(_, _)
Scored_overlap_required(target, candidates) ==
    IF candidates = <<>> THEN <<>>
    ELSE LET c == Head(candidates)
             score == FuzzScore(target.title, c.title)
             keep == /\ c.id # target.id
                     /\ _end_ok(target.end_date, c.end_date)
                     /\ _extract_entities(target.title) \cap _extract_entities(c.title) # {}
                     /\ score >= MinScore
         IN (IF keep THEN <<[id |-> c.id, score |-> score]>> ELSE <<>>)
            \o Scored_overlap_required(target, Tail(candidates))

RECURSIVE Scored(_, _)
Scored(target, candidates) ==
    IF candidates = <<>> THEN <<>>
    ELSE LET c == Head(candidates)
             t_ents == _extract_entities(target.title)
             c_ents == _extract_entities(c.title)
             score == FuzzScore(target.title, c.title)
             keep == /\ c.id # target.id
                     /\ _end_ok(target.end_date, c.end_date)
                     /\ ~(t_ents # {} /\ c_ents # {} /\ t_ents \cap c_ents = {})
                     /\ score >= MinScore
         IN (IF keep THEN <<[id |-> c.id, score |-> score]>> ELSE <<>>)
            \o Scored(target, Tail(candidates))

shortlist_candidates(target, candidates, k) ==
    Take(SortByScore(Scored(target, candidates)), k)

\* select ... order("updated_at", desc=True).limit(n)
RECURSIVE OrderByUpdated(_, _)
OrderByUpdated(table, ids) ==
    IF ids = {} THEN <<>>
    ELSE LET m == CHOOSE x \in ids : \A y \in ids : table[x].updated_at >= table[y].updated_at
         IN <<table[m]>> \o OrderByUpdated(table, ids \ {m})

RecentPool(table, n) == Take(OrderByUpdated(table, DOMAIN table), n)

embedding_for_market_id(market_id) == market_id \in vectors

\* (variant: the forced ids are collected and never added)
OverrideSet_NoForced(group_candidate, rows) ==
    LET removed == {rows[i].market_id : i \in {j \in DOMAIN rows : rows[j].action = "exclude"}}
    IN Range(SelectSeqIds(group_candidate, Ids \ removed))

\* The set apply_overrides returns as a list: candidates not excluded, then
\* every included market.
OverrideSet(group_candidate, rows) ==
    LET forced == {rows[i].market_id : i \in {j \in DOMAIN rows : rows[j].action = "include"}}
        removed == {rows[i].market_id : i \in {j \in DOMAIN rows : rows[j].action = "exclude"}}
    IN (Range(SelectSeqIds(group_candidate, Ids \ removed))) \cup forced

\* (variant: the list is cut to two members after the set conversion)
apply_overrides_capped(group_candidate, rows, hash_seed) ==
    Take(ListOfSet(OverrideSet(group_candidate, rows), hash_seed), 2)

apply_overrides(group_candidate, rows, hash_seed) ==
    ListOfSet(OverrideSet(group_candidate, rows), hash_seed)

\* The intersection loop of compute_group_for_seed
RECURSIVE Inter(_, _, _)
Inter(seed, short, top_ids) ==
    IF short = <<>> THEN <<>>
    ELSE LET cand == markets[Head(short).id]
         IN (IF cand.id \in top_ids /\ end_date_within(seed, cand, MaxDays)
             THEN <<cand.id>> ELSE <<>>) \o Inter(seed, Tail(short), top_ids)

\* (variant: no early return for a seed without a vector; the neighbour
\* lookup and the overrides run on every path)
compute_group_for_seed_no_early_return(seed_market_id, top_ids, hash_seed) ==
    IF seed_market_id \notin DOMAIN markets
    THEN [group |-> <<>>, nn_calls |-> 0, path |-> "missing"]
    ELSE LET seed == markets[seed_market_id]
             pool == RecentPool(markets, PoolLimit)
             short == shortlist_candidates(seed, pool, ShortlistK)
             inter == Inter(seed, short, top_ids)
             group == ListOfSet(Range(<<seed_market_id>> \o inter), hash_seed)
         IN [group |-> apply_overrides(group, overrides, hash_seed), nn_calls |-> 1,
             path |-> IF embedding_for_market_id(seed_market_id) THEN "full" ELSE "no_vec"]

\* compute_group_for_seed: the list it returns and the nearest-neighbour
\* calls it makes, for a given answer top_ids of the match_markets RPC.
compute_group_for_seed(seed_market_id, top_ids, hash_seed) ==
    IF seed_market_id \notin DOMAIN markets
    THEN [group |-> <<>>, nn_calls |-> 0, path |-> "missing"]
    ELSE LET seed == markets[seed_market_id]
             pool == RecentPool(markets, PoolLimit)
             short == shortlist_candidates(seed, pool, ShortlistK)
         IN IF ~embedding_for_market_id(seed_market_id)
            THEN [group |-> <<seed_market_id>>, nn_calls |-> 0, path |-> "no_vec"]
            ELSE LET inter == Inter(seed, short, top_ids)
                     group == ListOfSet(Range(<<seed_market_id>> \o inter), hash_seed)
                 IN [group |-> apply_overrides(group, overrides, hash_seed),
                     nn_calls |-> 1, path |-> "full"]

----------------------------------------------------------------------------
(* Numbers.  The Python code computes in floats; the model computes the     *)
(* same expressions exactly, on integers:                                   *)
(*   prices and probabilities (mid, prob)   in units of 1/20                *)
(*   basis points (fees, bumps, penalties)  in units of 5 bps = 1/2000      *)
(*   a slipped price                        in units of 1/40000             *)
(*   an effective price                     in units of 1/80000000          *)
(*   trade sizes and depths in USD          in units of 50 USD              *)
(*   a ratio (consensus, ev_usd of a mispricing) as a pair <<num, den>>     *)

Min(a, b) == IF a < b THEN a ELSE b

Max(a, b) == IF a > b THEN a ELSE b

Clamp(x, lo, hi) == Min(hi, Max(lo, x))

CeilDiv(n, d) == (n + d - 1) \div d

\* Python round(n / d) for d > 0: half to even
RoundHalfEven(n, d) ==
    LET q == n \div d
        r == n - q * d
    IN IF 2 * r < d THEN q
       ELSE IF 2 * r > d THEN q + 1
       ELSE IF q % 2 = 0 THEN q ELSE q + 1

RECURSIVE Concat(_)
Concat(ss) == IF ss = <<>> THEN <<>> ELSE Head(ss) \o Concat(Tail(ss))

Reverse(s) == [i \in DOMAIN s |-> s[Len(s) + 1 - i]]

\* str.upper() and str.strip().lower() on the outcome labels in use
Upper(label) ==
    CASE label \in {"YES", "yes", "Yes"} -> "YES"
      [] label \in {"NO", "no", "No"} -> "NO"
      [] OTHER -> label

Lower(label) ==
    CASE label \in {"YES", "yes", "Yes"} -> "yes"
      [] label \in {"NO", "no", "No"} -> "no"
      [] OTHER -> label

\* f"BUY_{label.upper()}"
BuyLabel(label) ==
    CASE Upper(label) = "YES" -> "BUY_YES"
      [] Upper(label) = "NO" -> "BUY_NO"
      [] OTHER -> "BUY_OTHER"

\* a or b on two optional numbers: a when it is present and non-zero
PyOr(a, b) == IF a # <<>> /\ a[1] # 0 THEN a ELSE b

----------------------------------------------------------------------------
(* grouping.py: consensus and the groups table *)

_latest_snapshot_for_market(market_id) == market_snapshots[market_id]

\* (variant: the probabilities are summed without their weight)
AccumAdd_unweighted(accum, label, w, p) ==
    IF \E i \in DOMAIN accum : accum[i].label = label
    THEN [i \in DOMAIN accum |->
            IF accum[i].label = label
            THEN [label |-> label, w |-> accum[i].w + w, p |-> accum[i].p + p]
            ELSE accum[i]]
    ELSE Append(accum, [label |-> label, w |-> w, p |-> p])

\* accum.setdefault(label, ..) then += : the dict keeps first-insertion order
AccumAdd(accum, label, w, p) ==
    IF \E i \in DOMAIN accum : accum[i].label = label
    THEN [i \in DOMAIN accum |->
            IF accum[i].label = label
            THEN [label |-> label, w |-> accum[i].w + w, p |-> accum[i].p + w * p]
            ELSE accum[i]]
    ELSE Append(accum, [label |-> label, w |-> w, p |-> w * p])

RECURSIVE AccumOutcomes(_, _, _)
AccumOutcomes(accum, outcomes, w) ==
    IF outcomes = <<>> THEN accum
    ELSE LET o == Head(outcomes)
             p == IF o.prob # <<>> THEN o.prob ELSE o.mid
         IN AccumOutcomes(IF p = <<>> THEN accum ELSE AccumAdd(accum, o.label, w, p[1]),
                          Tail(outcomes), w)

\* (variant: every market weighs 1.0, a plain average)
LiquidityWeight_one(mid) == 1

\* float(liq_by_id.get(mid, 1.0)) with liq_by_id[id] = float(r.get("liquidity_usd") or 1.0):
\* 1.0 for an id without a row, for None and for 0; any other number as it is
LiquidityWeight(mid) ==
    LET liq == IF mid \in DOMAIN markets THEN markets[mid].liquidity_usd ELSE <<>>
    IN IF liq = <<>> \/ liq[1] = 0 THEN 1 ELSE liq[1]

RECURSIVE AccumMarkets(_, _)
AccumMarkets(accum, market_ids) ==
    IF market_ids = <<>> THEN accum
    ELSE LET mid == Head(market_ids)
             snap == _latest_snapshot_for_market(mid)
             w == LiquidityWeight(mid)
         IN AccumMarkets(IF snap = <<>> THEN accum
                         ELSE AccumOutcomes(accum, snap[1].outcomes, w),
                         Tail(market_ids))

RECURSIVE VwapRows(_)
VwapRows(accum) ==
    IF accum = <<>> THEN <<>>
    ELSE (IF Head(accum).w <= 0 THEN <<>>
          ELSE <<[label |-> Head(accum).label, prob |-> <<Head(accum).p, Head(accum).w>>]>>)
         \o VwapRows(Tail(accum))

vwap_across_markets(market_ids) ==
    IF market_ids = <<>> THEN <<>> ELSE VwapRows(AccumMarkets(<<>>, market_ids))

\* The row upsert_group inserts; the store gives it the next id.
GroupRow(n, title, market_ids) ==
    [id |-> n, title |-> title, market_ids |-> market_ids,
     avg_prob |-> vwap_across_markets(market_ids)]

\* (variant: .upsert(row, on_conflict="title"), one canonical row per title)
upsert_group_canonical(table, title, market_ids) ==
    IF \E i \in DOMAIN table : table[i].title = title
    THEN [i \in DOMAIN table |->
            IF table[i].title = title THEN GroupRow(table[i].id, title, market_ids)
            ELSE table[i]]
    ELSE Append(table, GroupRow(Len(table) + 1, title, market_ids))

upsert_group(table, title, market_ids) ==
    Append(table, GroupRow(Len(table) + 1, title, market_ids))

----------------------------------------------------------------------------
(* tasks_analysis.py *)

_bps_to_frac(bps) == Max(0, bps)

_json_hash(obj) == <<"sha256", obj>>

_age_seconds(ts, clock) == IF ts = <<>> THEN <<>> ELSE <<Max(0, clock - ts[1])>>

\* platform -> taker_bps, from the rows of platform_fees
_load_platform_fees == platform_fees

\* fees_map.get(platform, {}).get("taker_bps", 20.0)
TakerBps(fees_map, platform) ==
    IF \E i \in DOMAIN fees_map : fees_map[i].platform = platform
    THEN LET i == CHOOSE j \in DOMAIN fees_map :
                    /\ fees_map[j].platform = platform
                    /\ \A k \in DOMAIN fees_map : fees_map[k].platform = platform => k <= j
         IN fees_map[i].taker_bps
    ELSE 4

_latest_snapshot(market_id) == market_snapshots[market_id]

\* select ... order("updated_at", desc=True).limit(limit) on groups
_recent_groups(limit) == Take(Reverse(groups), limit)

\* (variant: a rebate instead of a bump, growing with the size)
_slippage_mid_to_fill_rebate(price_mid, size_usd) ==
    LET bump_bps == IF size_usd <= 2 THEN 10 ELSE 10 - Min(10, (size_usd - 2) \div 2)
    IN Clamp(price_mid * (2000 + bump_bps), 4, 39996)

_slippage_mid_to_fill(price_mid, size_usd) ==
    LET bump_bps == IF size_usd <= 2 THEN 0 ELSE Min(10, (size_usd - 2) \div 2)
        bump == _bps_to_frac(bump_bps)
    IN Clamp(price_mid * (2000 + bump), 4, 39996)

_stale_penalty_bps(age_sec) ==
    IF age_sec = <<>> \/ age_sec[1] <= 60 THEN 0
    ELSE Min(10, CeilDiv(age_sec[1] - 60, 60))

_leg_effective_price(price_mid, size_usd, taker_bps, age_sec) ==
    LET p == _slippage_mid_to_fill(price_mid, size_usd)
        fee == _bps_to_frac(taker_bps)
        stale == _bps_to_frac(_stale_penalty_bps(age_sec))
    IN Clamp(p * (2000 + fee + stale), 8000, 79992000)

_fillable_usd(snapshot) ==
    LET outs == snapshot.outcomes
        withDepth == {i \in DOMAIN outs : outs[i].depth_usd # <<>>}
    IN IF withDepth # {}
       THEN outs[CHOOSE i \in withDepth : \A j \in withDepth : i <= j].depth_usd[1]
       ELSE IF snapshot.liquidity_usd # <<>> /\ snapshot.liquidity_usd[1] > 0
       THEN Max(2, Min(snapshot.liquidity_usd[1] \div 10, 100))
       ELSE 5

\* (variant: the cost of the NO leg is left out)
_dutch_book_ev_yes_only(yes_eff, no_eff, size_usd) ==
    LET ev == size_usd * (80000000 - yes_eff)
    IN [ev |-> ev, edge_bps |-> IF size_usd <= 0 THEN <<0, 1>> ELSE <<ev, size_usd * 8000>>]

\* ev in units of 50 USD / 80000000; edge_bps before rounding as <<num, den>>
_dutch_book_ev(yes_eff, no_eff, size_usd) ==
    LET prof_yes == size_usd * (80000000 - yes_eff) - size_usd * no_eff
        prof_no == size_usd * (80000000 - no_eff) - size_usd * yes_eff
        ev == Min(prof_yes, prof_no)
    IN [ev |-> ev, edge_bps |-> IF size_usd <= 0 THEN <<0, 1>> ELSE <<ev, size_usd * 8000>>]

_YES_ALIASES == {"YES", "Y", "TRUE", "WIN", "UP", "OVER"}

_NO_ALIASES == {"NO", "N", "FALSE", "LOSE", "DOWN", "UNDER"}

\* (variant: a price of 0 counts as no price)
RECURSIVE SnapYesNo_truthy(_, _)
SnapYesNo_truthy(acc, outcomes) ==
    IF outcomes = <<>> THEN acc
    ELSE LET o == Head(outcomes)
             lbl == Upper(o.label)
             prob == PyOr(o.mid, o.prob)
             nxt == IF prob = <<>> \/ prob = <<0>> THEN acc
                    ELSE IF lbl \in _YES_ALIASES THEN [acc EXCEPT !.yes_mid = prob]
                    ELSE IF lbl \in _NO_ALIASES THEN [acc EXCEPT !.no_mid = prob]
                    ELSE acc
         IN SnapYesNo_truthy(nxt, Tail(outcomes))

RECURSIVE SnapYesNo(_, _)
SnapYesNo(acc, outcomes) ==
    IF outcomes = <<>> THEN acc
    ELSE LET o == Head(outcomes)
             lbl == Upper(o.label)
             prob == PyOr(o.mid, o.prob)
             nxt == IF prob = <<>> THEN acc
                    ELSE IF lbl \in _YES_ALIASES THEN [acc EXCEPT !.yes_mid = prob]
                    ELSE IF lbl \in _NO_ALIASES THEN [acc EXCEPT !.no_mid = prob]
                    ELSE acc
         IN SnapYesNo(nxt, Tail(outcomes))

_snap_yes_no(snapshot) == SnapYesNo([yes_mid |-> <<>>, no_mid |-> <<>>], snapshot.outcomes)

_platform_from_snapshot(snapshot) ==
    IF snapshot.fees = "" THEN "unknown" ELSE snapshot.fees

\* (variant: the labels are compared as they are)
_vwap_lookup_exact(avg_prob, label) ==
    LET hits == {i \in DOMAIN avg_prob : avg_prob[i].label = label}
    IN IF hits = {} THEN <<>>
       ELSE avg_prob[CHOOSE i \in hits : \A j \in hits : i <= j].prob

\* the first row of avg_prob whose label matches, compared case-insensitively
_vwap_lookup(avg_prob, label) ==
    LET hits == {i \in DOMAIN avg_prob : Lower(avg_prob[i].label) = Lower(label)}
    IN IF hits = {} THEN <<>>
       ELSE avg_prob[CHOOSE i \in hits : \A j \in hits : i <= j].prob

Leg(platform, market_id, side, price_mid, effective, snapshot_ts) ==
    [platform |-> platform, market_id |-> market_id, side |-> side,
     price_mid |-> price_mid, effective |-> effective, snapshot_ts |-> snapshot_ts]

\* payload["hash"] = _json_hash(payload)
WithHash(payload) ==
    [type |-> payload.type, group_id |-> payload.group_id, legs |-> payload.legs,
     params |-> payload.params, metrics |-> payload.metrics, hash |-> _json_hash(payload)]

size_candidates == <<2, 10, 20>>

\* mids: one entry per market of the group that has a snapshot
RECURSIVE DutchMids(_)
DutchMids(market_ids) ==
    IF market_ids = <<>> THEN <<>>
    ELSE LET mid == Head(market_ids)
             snap == _latest_snapshot(mid)
         IN (IF snap = <<>> THEN <<>>
             ELSE <<[market_id |-> mid, platform |-> _platform_from_snapshot(snap[1]),
                     yes_mid |-> _snap_yes_no(snap[1]).yes_mid,
                     no_mid |-> _snap_yes_no(snap[1]).no_mid,
                     snapshot |-> snap[1]]>>)
            \o DutchMids(Tail(market_ids))

\* (variant: the legs are priced at the size bucket, not at the clamped size)
DutchRow_at_bucket(group, fees_map, a, b, size, clock) ==
    LET fill_usd == Min(_fillable_usd(a.snapshot), _fillable_usd(b.snapshot))
        taker_a == TakerBps(fees_map, a.platform)
        taker_b == TakerBps(fees_map, b.platform)
        age_a == _age_seconds(a.snapshot.ts, clock)
        age_b == _age_seconds(b.snapshot.ts, clock)
        sz == Min(size, fill_usd)
        yes_eff == _leg_effective_price(a.yes_mid[1], size, taker_a, age_a)
        no_eff == _leg_effective_price(b.no_mid[1], size, taker_b, age_b)
        r == _dutch_book_ev(yes_eff, no_eff, sz)
    IN IF fill_usd <= 0 \/ r.ev <= 0 THEN <<>>
       ELSE <<WithHash([type |-> "dutch_book", group_id |-> group.id,
                        legs |-> <<Leg(a.platform, a.market_id, "BUY_YES", a.yes_mid[1],
                                       <<yes_eff>>, a.snapshot.ts),
                                   Leg(b.platform, b.market_id, "BUY_NO", b.no_mid[1],
                                       <<no_eff>>, b.snapshot.ts)>>,
                        params |-> "default_v1",
                        metrics |-> [size_usd |-> sz, ev_usd |-> <<r.ev, 1600000>>,
                                     edge_bps |-> RoundHalfEven(r.edge_bps[1], r.edge_bps[2])]])>>

\* the body of the size loop for the pair (a, b)
DutchRow(group, fees_map, a, b, size, clock) ==
    LET fill_usd == Min(_fillable_usd(a.snapshot), _fillable_usd(b.snapshot))
        taker_a == TakerBps(fees_map, a.platform)
        taker_b == TakerBps(fees_map, b.platform)
        age_a == _age_seconds(a.snapshot.ts, clock)
        age_b == _age_seconds(b.snapshot.ts, clock)
        sz == Min(size, fill_usd)
        yes_eff == _leg_effective_price(a.yes_mid[1], sz, taker_a, age_a)
        no_eff == _leg_effective_price(b.no_mid[1], sz, taker_b, age_b)
        r == _dutch_book_ev(yes_eff, no_eff, sz)
    IN IF fill_usd <= 0 \/ r.ev <= 0 THEN <<>>
       ELSE <<WithHash([type |-> "dutch_book", group_id |-> group.id,
                        legs |-> <<Leg(a.platform, a.market_id, "BUY_YES", a.yes_mid[1],
                                       <<yes_eff>>, a.snapshot.ts),
                                   Leg(b.platform, b.market_id, "BUY_NO", b.no_mid[1],
                                       <<no_eff>>, b.snapshot.ts)>>,
                        params |-> "default_v1",
                        metrics |-> [size_usd |-> sz, ev_usd |-> <<r.ev, 1600000>>,
                                     edge_bps |-> RoundHalfEven(r.edge_bps[1], r.edge_bps[2])]])>>

\* (variant: the platforms of the two markets are not compared)
_build_dutch_book_any_platform(group, fees_map, sizes, clock) ==
    LET mids == DutchMids(group.market_ids)
        pair(i, j) ==
            IF \/ mids[i].yes_mid = <<>>
               \/ mids[i].market_id = mids[j].market_id
               \/ mids[j].no_mid = <<>>
            THEN <<>>
            ELSE Concat([k \in DOMAIN sizes |->
                            DutchRow(group, fees_map, mids[i], mids[j], sizes[k], clock)])
    IN Concat([i \in DOMAIN mids |-> Concat([j \in DOMAIN mids |-> pair(i, j)])])

_build_dutch_book(group, fees_map, sizes, clock) ==
    LET mids == DutchMids(group.market_ids)
        pair(i, j) ==
            IF \/ mids[i].yes_mid = <<>>
               \/ mids[i].market_id = mids[j].market_id
               \/ mids[i].platform = mids[j].platform
               \/ mids[j].no_mid = <<>>
            THEN <<>>
            ELSE Concat([k \in DOMAIN sizes |->
                            DutchRow(group, fees_map, mids[i], mids[j], sizes[k], clock)])
    IN Concat([i \in DOMAIN mids |-> Concat([j \in DOMAIN mids |-> pair(i, j)])])

\* the body of the outcome loop of _build_cross_mispricing; size_bucket 500 USD
MispricingRow(group, mid, platform, o) ==
    LET p == PyOr(o.mid, o.prob)
        avg == _vwap_lookup(group.avg_prob, o.label)
    IN IF p = <<>> \/ avg = <<>> THEN <<>>
       ELSE LET edge == <<avg[1] - p[1] * avg[2], 20 * avg[2]>>
                edge_bps == RoundHalfEven(10000 * edge[1], edge[2])
                ev_usd == <<500 * edge[1], edge[2]>>
            IN IF ev_usd[1] <= 0 THEN <<>>
               ELSE <<WithHash([type |-> "cross_mispricing", group_id |-> group.id,
                                legs |-> <<Leg(platform, mid, BuyLabel(o.label),
                                               p[1], <<>>, <<>>)>>,
                                params |-> "group_vwap",
                                metrics |-> [size_usd |-> 10, ev_usd |-> ev_usd,
                                             edge_bps |-> edge_bps]])>>

RECURSIVE MispricingMarkets(_, _)
MispricingMarkets(group, market_ids) ==
    IF market_ids = <<>> THEN <<>>
    ELSE LET mid == Head(market_ids)
             snap == _latest_snapshot(mid)
         IN (IF snap = <<>> THEN <<>>
             ELSE Concat([k \in DOMAIN snap[1].outcomes |->
                            MispricingRow(group, mid, _platform_from_snapshot(snap[1]),
                                          snap[1].outcomes[k])]))
            \o MispricingMarkets(group, Tail(market_ids))

_build_cross_mispricing(group) == MispricingMarkets(group, group.market_ids)

\* The store's id of a new arb_opportunities row: a fresh uuid, named here by
\* the row's unique opp_hash.
NewArbId(row) == <<"arb", row.hash>>

\* (variant: upsert instead of insert; a conflict answers with the stored row)
_insert_opportunity_row_upsert(row, table) ==
    [table |-> table \cup {[id |-> NewArbId(row), opp_hash |-> row.hash]},
     arb_id |-> <<NewArbId(row)>>, raised |-> FALSE]

\* (variant: no try/except around the insert; the duplicate error propagates)
_insert_opportunity_row_no_catch(row, table) ==
    IF \E r \in table : r.opp_hash = row.hash
    THEN [table |-> table, arb_id |-> <<>>, raised |-> TRUE]
    ELSE [table |-> table \cup {[id |-> NewArbId(row), opp_hash |-> row.hash]},
          arb_id |-> <<NewArbId(row)>>, raised |-> FALSE]

\* _insert_opportunity_row against a table with unique(opp_hash): the insert
\* of a stored hash raises a duplicate error, which is caught.  raised tells
\* whether an exception leaves the function.
_insert_opportunity_row(row, table) ==
    IF \E r \in table : r.opp_hash = row.hash
    THEN [table |-> table, arb_id |-> <<>>, raised |-> FALSE]
    ELSE [table |-> table \cup {[id |-> NewArbId(row), opp_hash |-> row.hash]},
          arb_id |-> <<NewArbId(row)>>, raised |-> FALSE]

----------------------------------------------------------------------------
(* Actions of the grouping store *)

NoCall == [seed |-> "", top_ids |-> {}, group |-> <<>>, nn_calls |-> 0, path |-> "none"]

NoPrev == [valid |-> FALSE, group |-> <<>>]

Workers == {"w1", "w2"}

IdleRun == [pc |-> "idle", fees |-> <<>>, groups |-> <<>>, gi |-> 0, pending |-> <<>>,
            inserted |-> 0, conflicts |-> 0, order |-> 0]

NoBatch == [pc |-> "idle", seeds |-> <<>>, si |-> 0, groups_built |-> 0]

NoCalc == [op |-> "none"]

NoAlertRun == [pc |-> "idle", sent |-> 0, skipped |-> 0, rows |-> {}, before |-> <<>>,
               cooldown_sec |-> 0, min_ev_change |-> 0]

AlertsIdle ==
    /\ alerts_queue = <<>>
    /\ messages = <<>>
    /\ alert_run = NoAlertRun

NoRl == [clock |-> 0]

NoRecomputes == [m \in {"m1", "m2", "m3", "m4"} |-> 0]

ExtrasIdle ==
    /\ calc = NoCalc
    /\ AlertsIdle
    /\ rl = NoRl
    /\ recomputed = NoRecomputes

\* the state of the tables before any job has run: no override, no vector,
\* no group, no opportunity
GroupStoreInit ==
    /\ overrides = <<>>
    /\ vectors = {}
    /\ call = NoCall
    /\ prev = NoPrev
    /\ batch = NoBatch
    /\ ExtrasIdle

AnalysisIdle ==
    /\ arb_opportunities = {}
    /\ run = [w \in Workers |-> IdleRun]
    /\ started = 0
    /\ overlapped = FALSE
    /\ attempted = {}
    /\ faults = 0

GroupInit ==
    /\ markets \in GroupingTables
    /\ GroupStoreInit
    /\ market_snapshots = [m \in Ids |-> <<>>]
    /\ platform_fees = <<>>
    /\ groups = <<>>
    /\ now = 0
    /\ AnalysisIdle

\* main.admin_group_override: append one row to group_overrides
AdminGroupOverride(m, a) ==
    /\ Len(overrides) < MaxOverrides
    /\ overrides' = Append(overrides, [market_id |-> m, action |-> a])
    /\ call' = NoCall
    /\ prev' = NoPrev
    /\ UNCHANGED <<xvars, markets, vectors, batch, avars>>

\* embeddings.embed_and_upsert for one market without a vector
EmbedMarket(m) ==
    /\ m \in DOMAIN markets
    /\ m \notin vectors
    /\ vectors' = vectors \cup {m}
    /\ call' = NoCall
    /\ prev' = NoPrev
    /\ UNCHANGED <<xvars, markets, overrides, batch, avars>>

\* What match_markets can answer for a seed vector: at most TopLimit ids of
\* markets that have a vector.
TopAnswers == {t \in SUBSET vectors : Cardinality(t) <= TopLimit}

\* One invocation of compute_group_for_seed in a worker whose hash seed is
\* hash_seed; top_ids is the answer of match_markets when it is asked.
Invocation(seed_market_id, top_ids, hash_seed) ==
    LET r == compute_group_for_seed(seed_market_id, top_ids, hash_seed)
        same == call.path # "none" /\ call.seed = seed_market_id /\ call.top_ids = top_ids
    IN /\ ~embedding_for_market_id(seed_market_id) => top_ids = {}
       /\ call' = [seed |-> seed_market_id, top_ids |-> top_ids, group |-> r.group,
                   nn_calls |-> r.nn_calls, path |-> r.path]
       /\ prev' = IF same THEN [valid |-> TRUE, group |-> call.group] ELSE NoPrev

ComputeGroupForSeed(seed_market_id, top_ids, hash_seed) ==
    /\ Invocation(seed_market_id, top_ids, hash_seed)
    /\ UNCHANGED <<xvars, markets, overrides, vectors, batch, avars>>

GroupNext ==
    \/ \E m \in GroupingIds, a \in Actions : AdminGroupOverride(m, a)
    \/ \E m \in GroupingIds : EmbedMarket(m)
    \/ \E s \in GroupingIds, t \in TopAnswers, h \in 0..(NumHashSeeds - 1) :
            ComputeGroupForSeed(s, t, h)

SpecGroup == GroupInit /\ [][GroupNext]_vars

----------------------------------------------------------------------------
(* The latest snapshots as ingestion writes them *)

Outcome(label, p, depth) == [label |-> label, mid |-> p, prob |-> p, depth_usd |-> depth]

\* dao.insert_snapshot stores prob under both "mid" and "prob";
\* tasks_ingest.write_snapshots sets fees["_platform_hint"].
Snapshot(platform, yes_label, yes, no_label, no, depth) ==
    <<[ts |-> <<0>>, fees |-> platform, liquidity_usd |-> <<>>,
       outcomes |-> <<Outcome(yes_label, <<yes>>, depth), Outcome(no_label, <<no>>, depth)>>]>>

\* the latest snapshots: quotes 0.40/0.60, 0.45/0.55 and 0.35/0.60, either
\* without declared depth or with 1000 USD of depth on every market
SnapshotTables ==
    {[m \in Ids |->
        CASE m = "m1" -> Snapshot("polymarket", "YES", 8, "NO", 12, depth)
          [] m = "m2" -> Snapshot("limitless", "YES", 9, "NO", 11, depth)
          [] m = "m3" -> Snapshot("polymarket", "yes", 7, "no", 12, depth)
          [] OTHER -> <<>>] : depth \in {<<>>, <<20>>}}

----------------------------------------------------------------------------
(* tasks_grouping.recompute_all, one seed per step *)

BatchInit ==
    /\ markets \in GroupingTables
    /\ GroupStoreInit
    /\ market_snapshots \in SnapshotTables
    /\ platform_fees = <<>>
    /\ groups = <<>>
    /\ now = 0
    /\ AnalysisIdle

\* seeds = select id,title order by updated_at desc limit
RecomputeAllStart ==
    /\ batch.pc # "running"
    /\ LET seeds == RecentPool(markets, RecomputeLimit)
       IN /\ Len(groups) + Len(seeds) <= MaxGroupRows
          /\ batch' = [pc |-> IF seeds = <<>> THEN "returned" ELSE "running",
                       seeds |-> seeds, si |-> 1, groups_built |-> 0]
    /\ UNCHANGED <<xvars, markets, gvars, avars>>

\* the loop body: mids = compute_group_for_seed(s["id"]); if mids:
\* upsert_group(s["title"], mids); built += 1
RecomputeSeed(top_ids, hash_seed) ==
    /\ batch.pc = "running"
    /\ LET s == batch.seeds[batch.si]
           mids == compute_group_for_seed(s.id, top_ids, hash_seed).group
       IN /\ Invocation(s.id, top_ids, hash_seed)
          /\ groups' = IF mids # <<>> THEN upsert_group(groups, s.title, mids) ELSE groups
          /\ recomputed' = IF mids # <<>> THEN [recomputed EXCEPT ![s.id] = @ + 1]
                           ELSE recomputed
          /\ batch' = [batch EXCEPT
                         !.groups_built = IF mids # <<>> THEN @ + 1 ELSE @,
                         !.si = @ + 1,
                         !.pc = IF batch.si = Len(batch.seeds) THEN "returned" ELSE "running"]
    /\ UNCHANGED <<calc, alvars, rl, markets, overrides, vectors, market_snapshots,
                   platform_fees, arb_opportunities, now, run, started, overlapped,
                   attempted, faults>>

\* title = seed[0]["title"] if seed else "Group"
SeedTitle(market_id) ==
    IF market_id \in DOMAIN markets THEN markets[market_id].title ELSE "Group"

\* tasks_grouping.recompute_for_market, while no recompute_all is under way
RecomputeForMarket(market_id, top_ids, hash_seed) ==
    /\ batch.pc # "running"
    /\ Len(groups) < MaxGroupRows
    /\ LET mids == compute_group_for_seed(market_id, top_ids, hash_seed).group
       IN /\ Invocation(market_id, top_ids, hash_seed)
          /\ groups' = IF mids # <<>> THEN upsert_group(groups, SeedTitle(market_id), mids)
                       ELSE groups
          /\ recomputed' = IF mids # <<>> THEN [recomputed EXCEPT ![market_id] = @ + 1]
                           ELSE recomputed
    /\ UNCHANGED <<calc, alvars, rl, markets, overrides, vectors, batch, market_snapshots,
                   platform_fees, arb_opportunities, now, run, started, overlapped,
                   attempted, faults>>

\* a store read, the embedding lookup, match_markets or the group insert
\* raises while a seed is processed: recompute_all has no handler
RecomputeSeedRaises ==
    /\ batch.pc = "running"
    /\ faults < MaxFaults
    /\ faults' = faults + 1
    /\ batch' = [batch EXCEPT !.pc = "raised"]
    /\ UNCHANGED <<xvars, markets, gvars, market_snapshots, platform_fees, groups,
                   arb_opportunities, now, run, started, overlapped, attempted>>

BatchNext ==
    \/ \E m \in GroupingIds, a \in Actions : AdminGroupOverride(m, a)
    \/ \E m \in GroupingIds : EmbedMarket(m)
    \/ RecomputeAllStart
    \/ \E t \in TopAnswers, h \in 0..(NumHashSeeds - 1) : RecomputeSeed(t, h)
    \/ RecomputeSeedRaises

SpecBatch == BatchInit /\ [][BatchNext]_vars

\* the recomputes alone: recompute_all and recompute_for_market while
\* embeddings arrive, without overrides and without store failures
HistoryNext ==
    \/ \E m \in GroupingIds : EmbedMarket(m)
    \/ RecomputeAllStart
    \/ \E t \in TopAnswers, h \in 0..(NumHashSeeds - 1) : RecomputeSeed(t, h)
    \/ \E m \in GroupingIds, t \in TopAnswers, h \in 0..(NumHashSeeds - 1) :
            RecomputeForMarket(m, t, h)

SpecHistory == BatchInit /\ [][HistoryNext]_vars

----------------------------------------------------------------------------
(* compute_opportunities, one store call or one build per step *)

OppInit ==
    /\ markets = MarketRows
    /\ GroupStoreInit
    /\ market_snapshots \in SnapshotTables
    /\ platform_fees = <<[platform |-> "polymarket", taker_bps |-> 2]>>
    /\ groups = upsert_group(upsert_group(<<>>, "btc 100k by december", <<"m2", "m3">>),
                             "btc 100k dec", <<"m1", "m2">>)
    /\ now = 30
    /\ AnalysisIdle

Active(w) == run[w].pc \notin {"idle", "returned", "raised"}

\* fees = _load_platform_fees(); groups = _recent_groups(limit=max_groups)
Start(w) ==
    /\ run[w].pc = "idle"
    /\ LET gs == _recent_groups(MaxGroupsScanned)
       IN run' = [run EXCEPT ![w] = [IdleRun EXCEPT
                    !.pc = IF gs = <<>> THEN "returned" ELSE "dutch",
                    !.fees = _load_platform_fees, !.groups = gs, !.gi = 1,
                    !.order = started + 1]]
    /\ started' = started + 1
    /\ overlapped' = (overlapped \/ \E v \in Workers \ {w} : Active(v))
    /\ UNCHANGED <<xvars, markets, gvars, batch, market_snapshots, platform_fees, groups,
                   arb_opportunities, now, attempted, faults>>

\* where the loop goes when the rows of the current builder are used up
AfterRows(r) ==
    IF r.pc \in {"dutch", "insert_dutch"} THEN [r EXCEPT !.pc = "mispricing"]
    ELSE IF r.gi < Len(r.groups) THEN [r EXCEPT !.pc = "dutch", !.gi = r.gi + 1]
    ELSE [r EXCEPT !.pc = "returned"]

\* for row in _build_dutch_book(g, fees): the snapshot reads and the scoring
BuildDutch(w) ==
    /\ run[w].pc = "dutch"
    /\ LET rows == _build_dutch_book(run[w].groups[run[w].gi], run[w].fees,
                                     size_candidates, now)
       IN run' = [run EXCEPT ![w] =
                    IF rows = <<>> THEN AfterRows(run[w])
                    ELSE [run[w] EXCEPT !.pc = "insert_dutch", !.pending = rows]]
    /\ UNCHANGED <<xvars, markets, gvars, batch, market_snapshots, platform_fees, groups,
                   arb_opportunities, now, started, overlapped, attempted, faults>>

\* for row in _build_cross_mispricing(g)
BuildMispricing(w) ==
    /\ run[w].pc = "mispricing"
    /\ LET rows == _build_cross_mispricing(run[w].groups[run[w].gi])
       IN run' = [run EXCEPT ![w] =
                    IF rows = <<>> THEN AfterRows(run[w])
                    ELSE [run[w] EXCEPT !.pc = "insert_mispricing", !.pending = rows]]
    /\ UNCHANGED <<xvars, markets, gvars, batch, market_snapshots, platform_fees, groups,
                   arb_opportunities, now, started, overlapped, attempted, faults>>

\* _latest_snapshot raises inside a builder: nothing in compute_opportunities
\* catches it, the task ends with the exception
BuildRaises(w) ==
    /\ run[w].pc \in {"dutch", "mispricing"}
    /\ faults < MaxFaults
    /\ faults' = faults + 1
    /\ run' = [run EXCEPT ![w].pc = "raised"]
    /\ UNCHANGED <<xvars, markets, gvars, batch, market_snapshots, platform_fees, groups,
                   arb_opportunities, now, started, overlapped, attempted>>

\* arb_id = _insert_opportunity_row(row); if arb_id: inserted += 1
InsertRow(w) ==
    /\ run[w].pc \in {"insert_dutch", "insert_mispricing"}
    /\ LET res == _insert_opportunity_row(Head(run[w].pending), arb_opportunities)
           r1 == [run[w] EXCEPT
                    !.pending = Tail(run[w].pending),
                    !.inserted = IF res.arb_id # <<>> THEN @ + 1 ELSE @,
                    !.conflicts = IF res.arb_id = <<>> THEN Min(@ + 1, 1) ELSE @]
       IN /\ arb_opportunities' = res.table
          /\ attempted' = attempted \cup {Head(run[w].pending).hash}
          /\ run' = [run EXCEPT ![w] =
                        IF res.raised THEN [r1 EXCEPT !.pc = "raised"]
                        ELSE IF r1.pending = <<>> THEN AfterRows(r1) ELSE r1]
    /\ UNCHANGED <<xvars, markets, gvars, batch, market_snapshots, platform_fees, groups, now,
                   started, overlapped, faults>>

Tick ==
    /\ now + TickSec <= MaxClock
    /\ now' = now + TickSec
    /\ UNCHANGED <<xvars, markets, gvars, batch, market_snapshots, platform_fees, groups,
                   arb_opportunities, run, started, overlapped, attempted, faults>>

OppNext ==
    \/ \E w \in Workers : Start(w)
    \/ \E w \in Workers : BuildDutch(w)
    \/ \E w \in Workers : BuildMispricing(w)
    \/ \E w \in Workers : BuildRaises(w)
    \/ \E w \in Workers : InsertRow(w)
    \/ Tick

SpecOpp == OppInit /\ [][OppNext]_vars

----------------------------------------------------------------------------
(* The pipeline run twice: recompute_all, compute_opportunities,              *)
(* recompute_all, compute_opportunities, over a store that nothing else       *)
(* touches and a clock that stands still                                      *)

\* how many recompute_all runs have stored their groups
BatchesDone == recomputed["m1"]

\* the store: m1 and m2, near-duplicates with vectors, quoted by both venues
PipelineInit ==
    /\ markets = [m \in {"m1", "m2"} |-> MarketRows[m]]
    /\ overrides = <<>>
    /\ vectors = {"m1", "m2"}
    /\ call = NoCall
    /\ prev = NoPrev
    /\ batch = NoBatch
    /\ ExtrasIdle
    /\ market_snapshots \in SnapshotTables
    /\ platform_fees \in {<<>>, <<[platform |-> "polymarket", taker_bps |-> 2]>>}
    /\ groups = <<>>
    /\ now = 30
    /\ AnalysisIdle

\* recompute_all begins: the first time on the empty groups table, the
\* second time when the first compute_opportunities run has returned
PipelineRecomputeAll ==
    /\ \/ batch.pc = "idle"
       \/ batch.pc = "returned" /\ BatchesDone = 1 /\ run["w1"].pc = "returned"
    /\ batch' = [pc |-> "running", seeds |-> RecentPool(markets, RecomputeLimit),
                 si |-> 1, groups_built |-> 0]
    /\ UNCHANGED <<xvars, markets, gvars, avars>>

\* the loop body of recompute_all; match_markets answers with every market
\* that has a vector, both times
PipelineRecomputeSeed(hash_seed) == RecomputeSeed(vectors, hash_seed)

\* compute_opportunities begins when the recompute_all before it has returned
PipelineComputeOpportunities(w) ==
    /\ batch.pc = "returned"
    /\ \/ w = "w1" /\ BatchesDone = 1
       \/ w = "w2" /\ BatchesDone = 2
    /\ Start(w)

PipelineNext ==
    \/ PipelineRecomputeAll
    \/ \E h \in 0..(NumHashSeeds - 1) : PipelineRecomputeSeed(h)
    \/ \E w \in Workers : PipelineComputeOpportunities(w)
    \/ \E w \in Workers : BuildDutch(w)
    \/ \E w \in Workers : BuildMispricing(w)
    \/ \E w \in Workers : InsertRow(w)

SpecPipeline == PipelineInit /\ [][PipelineNext]_vars

----------------------------------------------------------------------------
(* Single-market groups: snapshot inserts, recomputes of seeds that have no   *)
(* vector, and compute_opportunities runs                                     *)

SingletonInit ==
    /\ markets = [m \in {"m1", "m2"} |-> MarketRows[m]]
    /\ GroupStoreInit
    /\ market_snapshots \in SnapshotTables
    /\ platform_fees = <<>>
    /\ groups = <<>>
    /\ now = 30
    /\ AnalysisIdle

\* tasks_ingest.write_snapshots: a new latest snapshot of the market, YES at
\* yes/20 and NO at the rest
InsertSnapshot(market_id, yes) ==
    /\ market_snapshots' =
          [market_snapshots EXCEPT ![market_id] =
              <<[Snapshot(markets[market_id].platform, "YES", yes, "NO", 20 - yes, <<>>)[1]
                    EXCEPT !.ts = <<now>>]>>]
    /\ UNCHANGED <<xvars, markets, gvars, batch, platform_fees, groups, arb_opportunities,
                   now, run, started, overlapped, attempted, faults>>

SingletonNext ==
    \/ \E m \in DOMAIN markets, yes \in {7, 8} : InsertSnapshot(m, yes)
    \/ \E m \in DOMAIN markets, h \in 0..(NumHashSeeds - 1) : RecomputeForMarket(m, {}, h)
    \/ \E w \in Workers : Start(w)
    \/ \E w \in Workers : BuildDutch(w)
    \/ \E w \in Workers : BuildMispricing(w)
    \/ \E w \in Workers : InsertRow(w)

SpecSingleton == SingletonInit /\ [][SingletonNext]_vars

----------------------------------------------------------------------------
(* vwap_across_markets over drawn markets and snapshots *)

\* liquidity_usd as the venue reported it: 10, -30, 0 or missing
VwapLiquidities == {<<10>>, <<-30>>, <<0>>, <<>>}

VwapMarketTables ==
    {[MarketRows EXCEPT !["m1"].liquidity_usd = l] : l \in VwapLiquidities}

\* m1 quotes YES at 0.80 or 0.40 and its NO outcome carries no price or only
\* a mid of 0.20; m2 quotes 0.40/0.60; m3 has no snapshot or quotes
\* yes/no in lower case; m4 has no snapshot
VwapSnapshotTables ==
    {[m \in Ids |->
        CASE m = "m1" -> <<[ts |-> <<0>>, fees |-> "polymarket", liquidity_usd |-> <<>>,
                            outcomes |-> <<Outcome("YES", <<y>>, <<>>),
                                           [label |-> "NO", mid |-> n, prob |-> <<>>,
                                            depth_usd |-> <<>>]>>]>>
          [] m = "m2" -> Snapshot("limitless", "YES", 8, "NO", 12, <<>>)
          [] m = "m3" -> s3
          [] OTHER -> <<>>] :
        y \in {16, 8}, n \in {<<>>, <<4>>},
        s3 \in {<<>>, Snapshot("polymarket", "yes", 7, "no", 12, <<>>)}}

\* the market_ids of a group row
VwapIdLists ==
    {<<>>} \cup {<<a>> : a \in Ids} \cup {<<a, b>> : a \in Ids, b \in Ids}
    \cup {<<"m1", "m2", "m4">>, <<"m1", "m2", "m3">>}

VwapInit ==
    /\ markets \in VwapMarketTables
    /\ GroupStoreInit
    /\ market_snapshots \in VwapSnapshotTables
    /\ platform_fees = <<>>
    /\ groups = <<>>
    /\ now = 0
    /\ AnalysisIdle

\* one call of vwap_across_markets; weights and accum are what the call
\* computes on its way
VwapCall(market_ids) ==
    /\ calc' = [op |-> "vwap", market_ids |-> market_ids,
                weights |-> [i \in DOMAIN market_ids |-> LiquidityWeight(market_ids[i])],
                accum |-> AccumMarkets(<<>>, market_ids),
                out |-> vwap_across_markets(market_ids)]
    /\ UNCHANGED <<markets, gvars, batch, avars, alvars, rvars>>

VwapNext == \E market_ids \in VwapIdLists : VwapCall(market_ids)

SpecVwap == VwapInit /\ [][VwapNext]_vars

----------------------------------------------------------------------------
(* The scoring functions of tasks_analysis.py over drawn snapshots, fees and *)
(* group rows                                                                *)

\* m1 (polymarket) quotes YES at 0.55, at 0.65, at 0 or not at all, NO at 0.45;
\* m2 (limitless) quotes 0.60/0.40; m3 (polymarket) quotes yes/no in lower
\* case at 0.70/0.30; m4 has no snapshot.  The outcomes of m1 and m3 declare a
\* depth of 100 USD, of 0 USD, or none; those of m2 declare 600 USD.
ScoreSnapshotTables ==
    {[m \in Ids |->
        CASE m = "m1" -> <<[ts |-> <<0>>, fees |-> "polymarket", liquidity_usd |-> <<>>,
                            outcomes |-> <<Outcome("YES", y, depth),
                                           Outcome("NO", <<9>>, depth)>>]>>
          [] m = "m2" -> Snapshot("limitless", "YES", 12, "NO", 8, <<12>>)
          [] m = "m3" -> Snapshot("polymarket", "yes", 14, "no", 6, depth)
          [] OTHER -> <<>>] :
        y \in {<<11>>, <<13>>, <<0>>, <<>>}, depth \in {<<2>>, <<0>>, <<>>}}

\* platform_fees: empty, or both venues at 0 bps
ScoreFeeTables ==
    {<<>>, <<[platform |-> "polymarket", taker_bps |-> 0],
             [platform |-> "limitless", taker_bps |-> 0]>>}

ScoreIdLists ==
    {<<"m1", "m2">>, <<"m1", "m3">>, <<"m1", "m2", "m3">>, <<"m2", "m2">>, <<"m3", "m2", "m4">>}

\* avg_prob of a stored group row: consensus 0.70 or 0.60 for YES (written
\* when other snapshots were the latest), in either case of the label, or empty
ScoreConsensus ==
    {<<>>,
     <<[label |-> "YES", prob |-> <<14, 1>>], [label |-> "NO", prob |-> <<6, 1>>]>>,
     <<[label |-> "YES", prob |-> <<12, 1>>], [label |-> "NO", prob |-> <<8, 1>>]>>,
     <<[label |-> "yes", prob |-> <<26, 2>>], [label |-> "YES", prob |-> <<12, 1>>]>>}

ScoreGroups ==
    {[id |-> 1, title |-> "btc 100k dec", market_ids |-> ids, avg_prob |-> ap] :
        ids \in ScoreIdLists, ap \in ScoreConsensus}

\* effective prices 0.40 .. 1.00 in 1/80000000, sizes 0, 100 and 1000 USD
EvPrices == {32000000, 36000000, 44000000, 52000000, 80000000}

EvSizes == {0, 2, 20}

ScoreInit ==
    /\ markets = MarketRows
    /\ GroupStoreInit
    /\ market_snapshots \in ScoreSnapshotTables
    /\ platform_fees \in ScoreFeeTables
    /\ groups = <<>>
    /\ now \in {30, 150}
    /\ AnalysisIdle

\* one call of _dutch_book_ev
EvCall(yes_eff, no_eff, size_usd) ==
    /\ calc' = [op |-> "ev", yes_eff |-> yes_eff, no_eff |-> no_eff, size_usd |-> size_usd,
                out |-> _dutch_book_ev(yes_eff, no_eff, size_usd)]
    /\ UNCHANGED <<markets, gvars, batch, avars, alvars, rvars>>

\* one call of _build_dutch_book(group, fees) with fees = _load_platform_fees()
ScoreDutch(group) ==
    /\ calc' = [op |-> "dutch", group |-> group,
                rows |-> _build_dutch_book(group, _load_platform_fees, size_candidates, now)]
    /\ UNCHANGED <<markets, gvars, batch, avars, alvars, rvars>>

\* one call of _build_cross_mispricing(group)
ScoreMispricing(group) ==
    /\ calc' = [op |-> "mispricing", group |-> group,
                rows |-> _build_cross_mispricing(group)]
    /\ UNCHANGED <<markets, gvars, batch, avars, alvars, rvars>>

ScoreNext ==
    \/ \E y \in EvPrices, n \in EvPrices, sz \in EvSizes : EvCall(y, n, sz)
    \/ \E g \in ScoreGroups : ScoreDutch(g)
    \/ \E g \in ScoreGroups : ScoreMispricing(g)

SpecScore == ScoreInit /\ [][ScoreNext]_vars

----------------------------------------------------------------------------
(* _leg_effective_price at two sizes *)

\* mids 0, 0.35, 0.60, 1.00; sizes 0 .. 1200 USD; taker fees 0 and 20 bps;
\* ages none, 10 s, 150 s
LegMids == {0, 7, 12, 20}

LegSizes == {0, 2, 3, 4, 20, 24}

LegTakers == {0, 4}

LegAges == {<<>>, <<10>>, <<150>>}

PriceInit ==
    /\ markets = MarketRows
    /\ GroupStoreInit
    /\ market_snapshots = [m \in Ids |-> <<>>]
    /\ platform_fees = <<>>
    /\ groups = <<>>
    /\ now = 0
    /\ AnalysisIdle

\* _leg_effective_price for the same mid, fee and age at sizes s1 and s2
LegCall(price_mid, s1, s2, taker_bps, age_sec) ==
    /\ calc' = [op |-> "leg", price_mid |-> price_mid, s1 |-> s1, s2 |-> s2,
                taker_bps |-> taker_bps, age_sec |-> age_sec,
                p1 |-> _leg_effective_price(price_mid, s1, taker_bps, age_sec),
                p2 |-> _leg_effective_price(price_mid, s2, taker_bps, age_sec)]
    /\ UNCHANGED <<markets, gvars, batch, avars, alvars, rvars>>

PriceNext ==
    \E price_mid \in LegMids, s1 \in LegSizes, s2 \in LegSizes,
       taker_bps \in LegTakers, age_sec \in LegAges :
        LegCall(price_mid, s1, s2, taker_bps, age_sec)

SpecPrice == PriceInit /\ [][PriceNext]_vars

----------------------------------------------------------------------------
(* shortlist_candidates over drawn targets and pools *)

ShortlistTitles ==
    {"btc 100k dec", "eth 100k dec", "100k dec", "rain in london", "rain in london tomorrow"}

ShortlistRow(id, title) == [MarketRows[id] EXCEPT !.title = title, !.end_date = <<0>>]

\* the target is m1; the pool holds m1 or m2, then m3
ShortlistPools ==
    {<<ShortlistRow(a, ta), ShortlistRow("m3", tb)>> :
        a \in {"m1", "m2"}, ta \in ShortlistTitles, tb \in ShortlistTitles}

ShortlistCall(target, candidates) ==
    /\ calc' = [op |-> "shortlist", target |-> target, candidates |-> candidates,
                out |-> shortlist_candidates(target, candidates, ShortlistK)]
    /\ UNCHANGED <<markets, gvars, batch, avars, alvars, rvars>>

\* the target's end date, in half days: that of the candidates, 60 days and
\* 12 hours after it, as long before it, or none
ShortlistEnds == {<<0>>, <<121>>, <<-121>>, <<>>}

ShortlistNext ==
    \E t \in ShortlistTitles, e \in ShortlistEnds, candidates \in ShortlistPools :
        ShortlistCall([ShortlistRow("m1", t) EXCEPT !.end_date = e], candidates)

SpecShortlist == PriceInit /\ [][ShortlistNext]_vars

----------------------------------------------------------------------------
(* process_alerts_queue.  EV amounts are in units of 0.50 USD, times in seconds. *)

AlertCooldownSec == 300

AlertMinEvChange == 2

AlertLimit == 100

\* opp[0].get("metrics") ... float(metrics.get("ev_usd") or 0.0)
OppsWithId(arb_id) == {o \in arb_opportunities : o.id = arb_id}

AlertEv(opp) == IF opp.metrics.ev_usd = <<>> THEN 0 ELSE opp.metrics.ev_usd[1]

\* row.get("sent_at") or row.get("last_sent")
last_sent_str(row) == IF row.sent_at # <<>> THEN row.sent_at ELSE row.last_sent

\* (variant: no cooldown)
InCooldown_never(row, t, cooldown_sec) == FALSE

\* last_sent and (now - last_sent).total_seconds() < cooldown_sec
InCooldown(row, t, cooldown_sec) ==
    /\ last_sent_str(row) # <<>>
    /\ t - last_sent_str(row)[1] < cooldown_sec

\* last_val is not None and abs(ev - float(last_val)) < min_ev_change
SmallChange(row, ev, min_ev_change) ==
    /\ row.last_value # <<>>
    /\ Abs(ev - row.last_value[1]) < min_ev_change

\* (variant: the update records the send but leaves the status)
SentUpdate_keeps_pending(row, ev, t) == [row EXCEPT !.sent_at = <<t>>, !.last_value = <<ev>>]

\* update({"status": "sent", "sent_at": now.isoformat(), "last_value": ev})
SentUpdate(row, ev, t) ==
    [row EXCEPT !.status = "sent", !.sent_at = <<t>>, !.last_value = <<ev>>]

\* one pass of the loop body for the fetched row; st carries the table, the
\* messages and the two counters
ProcessRow(st, row, t, cooldown_sec, min_ev_change, has_token) ==
    IF row.arb_id = <<>> \/ row.user_id = <<>> THEN [st EXCEPT !.skipped = @ + 1]
    ELSE IF OppsWithId(row.arb_id[1]) = {} THEN [st EXCEPT !.skipped = @ + 1]
    ELSE LET ev == AlertEv(CHOOSE o \in OppsWithId(row.arb_id[1]) : TRUE)
         IN IF InCooldown(row, t, cooldown_sec) THEN st
            ELSE IF SmallChange(row, ev, min_ev_change) THEN st
            ELSE [st EXCEPT
                    !.messages[row.id] = [calls |-> @.calls + 1,
                                          posted |-> @.posted + (IF has_token THEN 1 ELSE 0)],
                    !.queue = [j \in DOMAIN @ |->
                                 IF @[j].id = row.id THEN SentUpdate(@[j], ev, t) ELSE @[j]],
                    !.sent = @ + 1]

RECURSIVE ProcessRows(_, _, _, _, _, _)
ProcessRows(st, rows, t, cooldown_sec, min_ev_change, has_token) ==
    IF rows = <<>> THEN st
    ELSE ProcessRows(ProcessRow(st, Head(rows), t, cooldown_sec, min_ev_change, has_token),
                     Tail(rows), t, cooldown_sec, min_ev_change, has_token)

PendingIdx == {i \in DOMAIN alerts_queue : alerts_queue[i].status = "pending"}

RECURSIVE RowsAt(_, _)
RowsAt(queue, sel) ==
    IF queue = <<>> THEN <<>>
    ELSE RowsAt(SubSeq(queue, 1, Len(queue) - 1), sel)
         \o (IF Len(queue) \in sel THEN <<queue[Len(queue)]>> ELSE <<>>)

\* one whole invocation; sel is the rows the select with .limit(limit) returns
\* (no ORDER BY: any limit of the pending rows); has_token tells whether
\* send_telegram_message has a bot token and posts
process_alerts_queue(limit, cooldown_sec, min_ev_change, has_token, sel) ==
    /\ sel \subseteq PendingIdx
    /\ Cardinality(sel) = Min(limit, Cardinality(PendingIdx))
    /\ LET st == ProcessRows([queue |-> alerts_queue, messages |-> messages,
                              sent |-> 0, skipped |-> 0],
                             RowsAt(alerts_queue, sel), now, cooldown_sec, min_ev_change,
                             has_token)
       IN /\ alerts_queue' = st.queue
          /\ messages' = st.messages
          /\ alert_run' = [pc |-> "returned", sent |-> st.sent, skipped |-> st.skipped,
                           rows |-> sel, before |-> alerts_queue,
                           cooldown_sec |-> cooldown_sec, min_ev_change |-> min_ev_change]
    /\ UNCHANGED <<calc, markets, gvars, batch, avars, rvars>>

AlertRow(id, user_id, arb_id, sent, last_value) ==
    [id |-> id, user_id |-> user_id, arb_id |-> arb_id, status |-> "pending",
     sent_at |-> sent[1], last_sent |-> sent[2], last_value |-> last_value]

\* <<sent_at, last_sent>> of a queued row
AlertSendTimes == {<<<<>>, <<>>>>, <<<<0>>, <<>>>>, <<<<-240>>, <<>>>>, <<<<>>, <<0>>>>}

AlertLastValues == {<<>>, <<20>>, <<21>>}

\* a1 asks for o1 again or for the first time; a2 lacks its user, names an
\* opportunity that is not stored, or is a fresh row for o2
AlertQueues ==
    {<<AlertRow("a1", <<"u1">>, <<"o1">>, st, lv), r2>> :
        st \in AlertSendTimes, lv \in AlertLastValues,
        r2 \in {AlertRow("a2", <<>>, <<"o2">>, <<<<>>, <<>>>>, <<>>),
                AlertRow("a2", <<"u2">>, <<"o9">>, <<<<>>, <<>>>>, <<>>),
                AlertRow("a2", <<"u2">>, <<"o2">>, <<<<>>, <<>>>>, <<>>)}}

AlertOpps ==
    {[id |-> "o1", opp_hash |-> "h1", metrics |-> [ev_usd |-> <<22>>]],
     [id |-> "o2", opp_hash |-> "h2", metrics |-> [ev_usd |-> <<8>>]]}

AlertsInit ==
    /\ markets = MarketRows
    /\ overrides = <<>>
    /\ vectors = {}
    /\ call = NoCall
    /\ prev = NoPrev
    /\ batch = NoBatch
    /\ calc = NoCalc
    /\ market_snapshots = [m \in Ids |-> <<>>]
    /\ platform_fees = <<>>
    /\ groups = <<>>
    /\ now = 0
    /\ arb_opportunities = AlertOpps
    /\ run = [w \in Workers |-> IdleRun]
    /\ started = 0
    /\ overlapped = FALSE
    /\ attempted = {}
    /\ faults = 0
    /\ alerts_queue \in AlertQueues
    /\ messages = [id \in {"a1", "a2"} |-> [calls |-> 0, posted |-> 0]]
    /\ alert_run = NoAlertRun
    /\ rl = NoRl
    /\ recomputed = NoRecomputes

AlertsNext ==
    \/ \E limit \in {1, AlertLimit}, cooldown_sec \in {0, 60, AlertCooldownSec},
          min_ev_change \in {0, AlertMinEvChange}, has_token \in BOOLEAN,
          sel \in SUBSET DOMAIN alerts_queue :
            process_alerts_queue(limit, cooldown_sec, min_ev_change, has_token, sel)
    \/ Tick

SpecAlerts == AlertsInit /\ [][AlertsNext]_vars

----------------------------------------------------------------------------
(* Two process_alerts_queue invocations running at the same time.  Here       *)
(* alert_run holds one record per invocation: the rows its select returned,   *)
(* the time it read, and its counters.                                        *)

AlertRunners == {"p1", "p2"}

IdleAlertRun == [pc |-> "idle", rows |-> <<>>, now |-> 0, sent |-> 0, skipped |-> 0]

OverlapInit ==
    /\ markets = MarketRows
    /\ overrides = <<>>
    /\ vectors = {}
    /\ call = NoCall
    /\ prev = NoPrev
    /\ batch = NoBatch
    /\ run = [w \in Workers |-> IdleRun]
    /\ started = 0
    /\ overlapped = FALSE
    /\ attempted = {}
    /\ faults = 0
    /\ market_snapshots = [m \in Ids |-> <<>>]
    /\ platform_fees = <<>>
    /\ groups = <<>>
    /\ now = 0
    /\ calc = NoCalc
    /\ arb_opportunities = AlertOpps
    /\ alerts_queue \in AlertQueues
    /\ messages = [id \in {"a1", "a2"} |-> [calls |-> 0, posted |-> 0]]
    /\ alert_run = [p \in AlertRunners |-> IdleAlertRun]
    /\ rl = NoRl
    /\ recomputed = NoRecomputes

\* the select of the pending rows and now = _now()
AlertSelect(p, limit, sel) ==
    /\ alert_run[p].pc = "idle"
    /\ sel \subseteq PendingIdx
    /\ Cardinality(sel) = Min(limit, Cardinality(PendingIdx))
    /\ alert_run' = [alert_run EXCEPT ![p] =
                        [pc |-> "loop", rows |-> RowsAt(alerts_queue, sel), now |-> now,
                         sent |-> 0, skipped |-> 0]]
    /\ UNCHANGED <<alerts_queue, messages, calc, markets, gvars, batch, avars, rvars>>

\* one pass of the loop body, on the row as the select returned it
AlertLoopBody(p, has_token) ==
    /\ alert_run[p].pc = "loop"
    /\ alert_run[p].rows # <<>>
    /\ LET st == ProcessRow([queue |-> alerts_queue, messages |-> messages,
                             sent |-> alert_run[p].sent, skipped |-> alert_run[p].skipped],
                            Head(alert_run[p].rows), alert_run[p].now,
                            AlertCooldownSec, AlertMinEvChange, has_token)
       IN /\ alerts_queue' = st.queue
          /\ messages' = st.messages
          /\ alert_run' = [alert_run EXCEPT ![p].rows = Tail(@), ![p].sent = st.sent,
                                            ![p].skipped = st.skipped]
    /\ UNCHANGED <<calc, markets, gvars, batch, avars, rvars>>

\* return {"sent": sent, "skipped": skipped}
AlertReturn(p) ==
    /\ alert_run[p].pc = "loop"
    /\ alert_run[p].rows = <<>>
    /\ alert_run' = [alert_run EXCEPT ![p].pc = "returned"]
    /\ UNCHANGED <<alerts_queue, messages, calc, markets, gvars, batch, avars, rvars>>

OverlapNext ==
    \/ \E p \in AlertRunners, limit \in {1, AlertLimit}, sel \in SUBSET DOMAIN alerts_queue :
          AlertSelect(p, limit, sel)
    \/ \E p \in AlertRunners, has_token \in BOOLEAN : AlertLoopBody(p, has_token)
    \/ \E p \in AlertRunners : AlertReturn(p)
    \/ Tick

SpecOverlap == OverlapInit /\ [][OverlapNext]_vars

----------------------------------------------------------------------------
(* rate_limit.acquire.  Times are whole seconds; token amounts are kept       *)
(* multiplied by period, so that one token is `period`, the capacity is       *)
(* limit * period and one second refills `limit`.                             *)

MaxRlClock == 7

MaxRlReturns == 4

RlClients == {"c1", "c2"}

\* limit and period of the bucket
RlConfigs == {[limit |-> 2, period |-> 4], [limit |-> 3, period |-> 3]}

RlCapacity == rl.cfg.limit * rl.cfg.period

RlOneToken == rl.cfg.period

\* ttl = int(math.ceil(capacity / rate * 2))
RlTtl == 2 * rl.cfg.period

\* hmget: the hash, gone once its expiry time has come
RlStored == IF rl.bucket # <<>> /\ rl.clock < rl.bucket[1].expires THEN rl.bucket ELSE <<>>

\* tokens = min(capacity, tokens + max(0.0, now - ts) * rate)
RlRefill(tokens, ts, t) == Min(RlCapacity, tokens + Max(0, t - ts) * rl.cfg.limit)

\* wait = (1.0 - tokens) / rate; time.sleep returns no earlier than asked
RlWait(tokens) == CeilDiv(RlOneToken - tokens, rl.cfg.limit)

RlStart == [pc |-> "start", tokens |-> 0, now |-> 0, dirty |-> FALSE, wake |-> 0,
            idle |-> FALSE, since |-> 0]

RlInit ==
    /\ markets = MarketRows
    /\ overrides = <<>>
    /\ vectors = {}
    /\ call = NoCall
    /\ prev = NoPrev
    /\ batch = NoBatch
    /\ calc = NoCalc
    /\ AlertsIdle
    /\ market_snapshots = [m \in Ids |-> <<>>]
    /\ platform_fees = <<>>
    /\ groups = <<>>
    /\ now = 0
    /\ AnalysisIdle
    /\ \E cfg \in RlConfigs :
         rl = [clock |-> 0, cfg |-> cfg, bucket |-> <<>>,
               client |-> [c \in RlClients |-> RlStart],
               returned |-> 0, burst_at |-> <<>>, next_at |-> <<>>, since_idle |-> 0]
    /\ recomputed = NoRecomputes

\* pipe.watch; hmget; now = time.time(); the refill; and, when less than one
\* token is there, pipe.unwatch and the start of the sleep
RlRead(c) ==
    /\ rl.client[c].pc = "start"
    /\ rl.returned < MaxRlReturns
    /\ LET absent == RlStored = <<>>
           tokens == IF absent THEN RlCapacity
                     ELSE RlRefill(RlStored[1].tokens, RlStored[1].ts, rl.clock)
           idle == absent \/ rl.clock - RlStored[1].ts >= rl.cfg.period
       IN rl' = [rl EXCEPT !.client[c] =
                    IF tokens < RlOneToken
                    THEN [RlStart EXCEPT !.pc = "sleeping", !.since = rl.since_idle,
                                         !.idle = idle,
                                         !.wake = rl.clock + RlWait(tokens)]
                    ELSE [RlStart EXCEPT !.pc = "ready", !.tokens = tokens,
                                         !.now = rl.clock, !.since = rl.since_idle,
                                         !.idle = idle]]
    /\ UNCHANGED <<calc, markets, gvars, batch, avars, alvars, recomputed>>

\* time.sleep(wait) is over; continue
RlWake(c) ==
    /\ rl.client[c].pc = "sleeping"
    /\ rl.clock >= rl.client[c].wake
    /\ rl' = [rl EXCEPT !.client[c] = RlStart]
    /\ UNCHANGED <<calc, markets, gvars, batch, avars, alvars, recomputed>>

\* (variant: EXEC never notices a concurrent write)
RlWatchBroken_never(c) == FALSE

\* the key was modified by another client after this client's WATCH
RlWatchBroken(c) == rl.client[c].dirty

\* pipe.multi; hset; expire; pipe.execute: WatchError and retry, or the write
\* and the return
RlCommit(c) ==
    /\ rl.client[c].pc = "ready"
    /\ IF RlWatchBroken(c)
       THEN rl' = [rl EXCEPT !.client[c] = RlStart]
       ELSE rl' = [rl EXCEPT
                     !.bucket = <<[tokens |-> rl.client[c].tokens - RlOneToken,
                                   ts |-> rl.client[c].now,
                                   expires |-> rl.clock + RlTtl]>>,
                     !.client = [d \in RlClients |->
                                   IF d = c THEN RlStart
                                   ELSE IF @[d].pc = "ready" THEN [@[d] EXCEPT !.dirty = TRUE]
                                   ELSE @[d]],
                     !.returned = @ + 1,
                     !.burst_at = IF rl.returned + 1 = rl.cfg.limit THEN <<rl.clock>> ELSE @,
                     !.next_at = IF rl.returned = rl.cfg.limit THEN <<rl.clock>> ELSE @,
                     !.since_idle = IF rl.client[c].idle THEN 1
                                    ELSE Min(@ + 1, rl.cfg.limit + 1)]
    /\ UNCHANGED <<calc, markets, gvars, batch, avars, alvars, recomputed>>

RlTick ==
    /\ rl.clock < MaxRlClock
    /\ rl' = [rl EXCEPT !.clock = @ + 1]
    /\ UNCHANGED <<calc, markets, gvars, batch, avars, alvars, recomputed>>

RlNext ==
    \/ \E c \in RlClients : RlRead(c)
    \/ \E c \in RlClients : RlWake(c)
    \/ \E c \in RlClients : RlCommit(c)
    \/ RlTick

SpecRateLimit == RlInit /\ [][RlNext]_vars

----------------------------------------------------------------------------
(* Properties of apply_overrides and compute_group_for_seed (SpecGroup) *)

HasOverride(m, a) ==
    \E i \in DOMAIN overrides : overrides[i].market_id = m /\ overrides[i].action = a

Returned == call.path # "none"

SeedExists == Returned /\ call.seed \in DOMAIN markets

\* C1: in apply_overrides, a market that has both an include row and an
\* exclude row is not in the returned cluster, whatever the order of the rows.
C1_ExcludeTakesPrecedence ==
    call.path = "full" =>
        \A m \in Ids : HasOverride(m, "include") /\ HasOverride(m, "exclude")
                          => m \notin Range(call.group)

\* C2: a market with an active exclude override is absent from the cluster
\* compute_group_for_seed returns, on every path of the function.
C2_ExcludedAbsent ==
    Returned => \A m \in Ids : HasOverride(m, "exclude") => m \notin Range(call.group)

C9_NoEmbeddingSingleton ==
    (SeedExists /\ call.seed \notin vectors) =>
        call.group = <<call.seed>> /\ call.nn_calls = 0

\* a seed without a vector while another market is force-included and
\* another market has a vector the oracle could have answered
C9_Witness ==
    /\ SeedExists /\ call.seed \notin vectors
    /\ \E m \in Ids \ {call.seed} : HasOverride(m, "include")
    /\ vectors # {}
    /\ call.group = <<call.seed>>

----------------------------------------------------------------------------
(* Properties of recompute_all (SpecBatch) *)

\* C6: recompute_all never raises: when the work on one seed fails, the
\* remaining seeds are processed and the call returns groups_built.
C6_BatchNeverRaises ==
    batch.pc # "raised"

----------------------------------------------------------------------------
(* Properties of compute_opportunities (SpecOpp) *)

ReturnedRun(w) == run[w].pc = "returned"

AllReturned == \A w \in Workers : ReturnedRun(w)

StoredHashes == {r.opp_hash : r \in arb_opportunities}

InsertPcs == {"insert_dutch", "insert_mispricing"}

\* C4: when compute_opportunities runs twice in sequence over the same
\* groups, snapshots and fees, the second run returns inserted = 0.
C4_SecondRunInsertsNothing ==
    (AllReturned /\ ~overlapped) =>
        \A w \in Workers : run[w].order = 2 => run[w].inserted = 0

\* C5: a failing store call while one group is scored does not make
\* compute_opportunities raise; the later groups are still scored.
C5_FailureDoesNotAbort ==
    \A w \in Workers : run[w].pc # "raised"

\* C7: after two interleaved compute_opportunities runs arb_opportunities
\* holds exactly one row per distinct content hash, and the inserted counts
\* of the two runs sum to the number of rows added.
C7_OneRowPerHash ==
    /\ \A r1, r2 \in arb_opportunities : r1.opp_hash = r2.opp_hash => r1 = r2
    /\ AllReturned =>
          /\ StoredHashes = attempted
          /\ Cardinality(arb_opportunities) = Cardinality(attempted)
          /\ run["w1"].inserted + run["w2"].inserted = Cardinality(arb_opportunities)

\* two runs that overlapped, each of which inserted rows and met conflicts
C7_Witness ==
    /\ AllReturned /\ overlapped
    /\ \A w \in Workers : run[w].inserted >= 1 /\ run[w].conflicts >= 1

\* C8: an insert whose opp_hash is already stored raises nothing, leaves the
\* stored rows unchanged and is not counted as inserted.
C8_ConflictIsSilent ==
    [][\A w \in Workers :
         (/\ run[w].pc \in InsertPcs
          /\ run'[w] # run[w]
          /\ Head(run[w].pending).hash \in StoredHashes)
         => (/\ arb_opportunities' = arb_opportunities
             /\ run'[w].inserted = run[w].inserted
             /\ run'[w].pc # "raised")]_vars

\* a run that met a duplicate and went on
C8_Witness ==
    \E w \in Workers : run[w].conflicts >= 1 /\ run[w].pc # "raised" /\ run[w].inserted >= 1

----------------------------------------------------------------------------
(* Properties of vwap_across_markets (SpecVwap) *)

RECURSIVE SumOver(_, _)
SumOver(S, f) ==
    IF S = {} THEN 0
    ELSE LET x == CHOOSE y \in S : TRUE IN f[x] + SumOver(S \ {x}, f)

VwapLabels == {"YES", "NO", "yes", "no"}

\* the price an outcome carries: prob, or mid when prob is missing
QuotedPrice(o) == IF o.prob # <<>> THEN o.prob ELSE o.mid

\* the (position in market_ids, outcome) pairs that price the label
Contributions(market_ids, label) ==
    {ik \in (DOMAIN market_ids) \X (1..2) :
        /\ market_snapshots[market_ids[ik[1]]] # <<>>
        /\ ik[2] <= Len(market_snapshots[market_ids[ik[1]]][1].outcomes)
        /\ market_snapshots[market_ids[ik[1]]][1].outcomes[ik[2]].label = label
        /\ QuotedPrice(market_snapshots[market_ids[ik[1]]][1].outcomes[ik[2]]) # <<>>}

WeightSum(market_ids, label) ==
    LET C == Contributions(market_ids, label)
    IN SumOver(C, [ik \in C |-> calc.weights[ik[1]]])

WeightedSum(market_ids, label) ==
    LET C == Contributions(market_ids, label)
    IN SumOver(C, [ik \in C |->
          calc.weights[ik[1]]
          * QuotedPrice(market_snapshots[market_ids[ik[1]]][1].outcomes[ik[2]])[1]])

VwapCalled == calc.op = "vwap"

VwapExample ==
    /\ VwapCalled
    /\ calc.market_ids = <<"m1", "m2">>
    /\ markets["m1"].liquidity_usd = <<10>> /\ markets["m2"].liquidity_usd = <<30>>
    /\ market_snapshots["m1"][1].outcomes[1] = Outcome("YES", <<16>>, <<>>)
    /\ market_snapshots["m2"][1].outcomes[1] = Outcome("YES", <<8>>, <<>>)

\* the consensus of label YES equals n / 20
YesConsensusIs(n) ==
    \E i \in DOMAIN calc.out :
        /\ calc.out[i].label = "YES"
        /\ calc.out[i].prob[1] = n * calc.out[i].prob[2]

\* C12 (as claimed): for M1 (liquidity 10, YES 0.8) and M2 (liquidity 30,
\* YES 0.4) the consensus of YES is 0.35.
C12_ExampleIs035 ==
    VwapExample => YesConsensusIs(7)

\* C12 (amended): for M1 (liquidity 10, YES 0.8) and M2 (liquidity 30,
\* YES 0.4) the consensus of YES is (10*0.8 + 30*0.4) / 40 = 0.5.
C12_ExampleIs050 ==
    VwapExample => YesConsensusIs(10) /\ ~YesConsensusIs(7)

C12_Witness ==
    VwapExample /\ YesConsensusIs(10)

\* C13: the weight vwap_across_markets applies to every market is strictly
\* positive (liquidity_usd when > 0, else 1.0), so the weight sum of every
\* label with a contribution is > 0.
C13_WeightsPositive ==
    VwapCalled =>
        /\ \A i \in DOMAIN calc.weights : calc.weights[i] > 0
        /\ \A i \in DOMAIN calc.accum : calc.accum[i].w > 0

----------------------------------------------------------------------------
(* Properties of the scoring functions (SpecScore, SpecPrice) *)

\* 1.0 as an effective price
EvUnit == 80000000

\* the _build_dutch_book call at hand: the members, their snapshots, and the
\* (YES market, NO market, size bucket) triples whose hedge is profitable
DutchIds == calc.group.market_ids

DutchSnap(i) == market_snapshots[DutchIds[i]]

DutchFill(i, j) == Min(_fillable_usd(DutchSnap(i)[1]), _fillable_usd(DutchSnap(j)[1]))

DutchEligible(i, j) ==
    /\ DutchSnap(i) # <<>> /\ DutchSnap(j) # <<>>
    /\ DutchIds[i] # DutchIds[j]
    /\ DutchSnap(i)[1].fees # DutchSnap(j)[1].fees
    /\ _snap_yes_no(DutchSnap(i)[1]).yes_mid # <<>>
    /\ _snap_yes_no(DutchSnap(j)[1]).no_mid # <<>>
    /\ DutchFill(i, j) > 0

DutchQuote(i, j, k) ==
    LET sz == Min(size_candidates[k], DutchFill(i, j))
        y == _leg_effective_price(_snap_yes_no(DutchSnap(i)[1]).yes_mid[1], sz,
                                  TakerBps(platform_fees, DutchSnap(i)[1].fees),
                                  _age_seconds(DutchSnap(i)[1].ts, now))
        n == _leg_effective_price(_snap_yes_no(DutchSnap(j)[1]).no_mid[1], sz,
                                  TakerBps(platform_fees, DutchSnap(j)[1].fees),
                                  _age_seconds(DutchSnap(j)[1].ts, now))
    IN [sz |-> sz, yes_eff |-> y, no_eff |-> n, ev |-> sz * (EvUnit - y - n)]

DutchTriples ==
    {t \in (DOMAIN DutchIds) \X (DOMAIN DutchIds) \X (DOMAIN size_candidates) :
        DutchEligible(t[1], t[2]) /\ DutchQuote(t[1], t[2], t[3]).ev > 0}

DutchRowMatches(row, t) ==
    LET q == DutchQuote(t[1], t[2], t[3])
    IN /\ row.legs[1].market_id = DutchIds[t[1]] /\ row.legs[1].effective = <<q.yes_eff>>
       /\ row.legs[2].market_id = DutchIds[t[2]] /\ row.legs[2].effective = <<q.no_eff>>
       /\ row.metrics.size_usd = q.sz
       /\ row.metrics.ev_usd[1] = q.ev
       /\ row.metrics.edge_bps = RoundHalfEven(q.ev, q.sz * 8000)

PricedBy(market_id, aliases, price_mid) ==
    /\ market_snapshots[market_id] # <<>>
    /\ \E k \in DOMAIN market_snapshots[market_id][1].outcomes :
          LET o == market_snapshots[market_id][1].outcomes[k]
          IN Upper(o.label) \in aliases /\ PyOr(o.mid, o.prob) = <<price_mid>>

\* C15: every dutch_book row of _build_dutch_book has exactly two legs,
\* BUY_YES on a market A with a usable yes price and BUY_NO on a market B
\* with a usable no price, A and B distinct members of the group on
\* different platforms.
C15_DutchLegs ==
    calc.op = "dutch" =>
        \A r \in DOMAIN calc.rows :
            LET legs == calc.rows[r].legs
            IN /\ calc.rows[r].type = "dutch_book"
               /\ Len(legs) = 2
               /\ legs[1].side = "BUY_YES" /\ legs[2].side = "BUY_NO"
               /\ legs[1].market_id \in Range(DutchIds)
               /\ legs[2].market_id \in Range(DutchIds)
               /\ legs[1].market_id # legs[2].market_id
               /\ legs[1].platform = markets[legs[1].market_id].platform
               /\ legs[2].platform = markets[legs[2].market_id].platform
               /\ legs[1].platform # legs[2].platform
               /\ PricedBy(legs[1].market_id, _YES_ALIASES, legs[1].price_mid)
               /\ PricedBy(legs[2].market_id, _NO_ALIASES, legs[2].price_mid)

\* a group with two polymarket members that both quote, and rows emitted
C15_Witness ==
    /\ calc.op = "dutch"
    /\ DutchIds = <<"m1", "m2", "m3">>
    /\ _snap_yes_no(market_snapshots["m1"][1]).yes_mid # <<>>
    /\ _snap_yes_no(market_snapshots["m3"][1]).no_mid # <<>>
    /\ Len(calc.rows) >= 2
    /\ \E r \in DOMAIN calc.rows : calc.rows[r].legs[1].market_id = "m1"
    /\ \E r \in DOMAIN calc.rows : calc.rows[r].legs[2].market_id = "m3"

\* the consensus for a label: the first row of avg_prob whose label is the
\* same up to case
ConsensusFor(label) ==
    LET avg == calc.group.avg_prob
        hits == {i \in DOMAIN avg : Lower(avg[i].label) = Lower(label)}
    IN IF hits = {} THEN <<>> ELSE avg[CHOOSE i \in hits : \A j \in hits : i <= j].prob

\* the (member, outcome) pairs with a usable price below the consensus
MispricedPairs ==
    {ik \in (DOMAIN calc.group.market_ids) \X (1..2) :
        LET snap == market_snapshots[calc.group.market_ids[ik[1]]]
        IN /\ snap # <<>>
           /\ ik[2] <= Len(snap[1].outcomes)
           /\ PyOr(snap[1].outcomes[ik[2]].mid, snap[1].outcomes[ik[2]].prob) # <<>>
           /\ ConsensusFor(snap[1].outcomes[ik[2]].label) # <<>>
           /\ LET c == ConsensusFor(snap[1].outcomes[ik[2]].label)
                  pr == PyOr(snap[1].outcomes[ik[2]].mid, snap[1].outcomes[ik[2]].prob)[1]
              IN c[1] - pr * c[2] > 0}

MispricingRowMatches(row, ik) ==
    LET mid == calc.group.market_ids[ik[1]]
        o == market_snapshots[mid][1].outcomes[ik[2]]
        pr == PyOr(o.mid, o.prob)[1]
        c == ConsensusFor(o.label)
    IN /\ row.type = "cross_mispricing"
       /\ Len(row.legs) = 1
       /\ row.legs[1].market_id = mid
       /\ row.legs[1].side = BuyLabel(o.label)
       /\ row.legs[1].price_mid = pr
       /\ row.metrics.size_usd = 10
       \* ev_usd = (c - p) * 500, edge_bps = round((c - p) * 10000)
       /\ row.metrics.ev_usd[1] * (20 * c[2]) = 500 * (c[1] - pr * c[2]) * row.metrics.ev_usd[2]
       /\ row.metrics.edge_bps = RoundHalfEven(10000 * (c[1] - pr * c[2]), 20 * c[2])

\* C16: _build_cross_mispricing emits a row for a (market, label) with a
\* usable price p exactly when the consensus for the label, matched
\* case-insensitively, minus p is > 0, with ev_usd = edge * 500 and
\* edge_bps = round(edge * 10000).
C16_MispricingEmission ==
    calc.op = "mispricing" =>
        /\ Len(calc.rows) = Cardinality(MispricedPairs)
        /\ \A ik \in MispricedPairs :
              \E r \in DOMAIN calc.rows : MispricingRowMatches(calc.rows[r], ik)
        /\ \A r \in DOMAIN calc.rows :
              \E ik \in MispricedPairs : MispricingRowMatches(calc.rows[r], ik)

\* consensus 0.70 against m2's YES at 0.60 is emitted with 50 USD and 1000
\* bps; the lower-case yes of m3 at 0.70 meets the same consensus and is not
C16_Witness ==
    /\ calc.op = "mispricing"
    /\ calc.group.market_ids = <<"m3", "m2", "m4">>
    /\ ConsensusFor("yes") = <<14, 1>>
    /\ \E r \in DOMAIN calc.rows :
          /\ calc.rows[r].legs[1].market_id = "m2"
          /\ calc.rows[r].legs[1].side = "BUY_YES"
          /\ calc.rows[r].metrics = [size_usd |-> 10, ev_usd |-> <<1000, 20>>,
                                      edge_bps |-> 1000]
    /\ ~\E r \in DOMAIN calc.rows :
          calc.rows[r].legs[1].market_id = "m3" /\ calc.rows[r].legs[1].side = "BUY_YES"

\* C17: _leg_effective_price is non-decreasing in the trade size for a fixed
\* mid price, taker fee and snapshot age.
C17_LegPriceMonotone ==
    (calc.op = "leg" /\ calc.s1 <= calc.s2) => calc.p1 <= calc.p2

\* 100 USD against 1000 USD at mid 0.60, 20 bps, age 10 s: strictly dearer
C17_Witness ==
    /\ calc.op = "leg"
    /\ calc.price_mid = 12 /\ calc.s1 = 2 /\ calc.s2 = 20
    /\ calc.taker_bps = 4 /\ calc.age_sec = <<10>>
    /\ calc.p1 < calc.p2

----------------------------------------------------------------------------
(* Properties of shortlist_candidates (SpecShortlist) *)

\* the candidate passes every test of the loop other than the entity check
PassesOtherChecks(target, c) ==
    /\ c.id # target.id
    /\ _end_ok(target.end_date, c.end_date)
    /\ FuzzScore(target.title, c.title) >= MinScore

Shortlisted(c) == \E i \in DOMAIN calc.out : calc.out[i].id = c.id

\* C18: the entity-overlap check of shortlist_candidates removes a candidate
\* only when the target's and the candidate's entity sets are both non-empty
\* and disjoint; a candidate is never dropped by it when either set is empty.
C18_EmptyEntitiesNotPruned ==
    calc.op = "shortlist" =>
        \A i \in DOMAIN calc.candidates :
            LET c == calc.candidates[i]
                t_ents == _extract_entities(calc.target.title)
                c_ents == _extract_entities(c.title)
            IN PassesOtherChecks(calc.target, c) =>
                 (~Shortlisted(c) <=> (t_ents # {} /\ c_ents # {} /\ t_ents \cap c_ents = {}))

\* a target with entities, one candidate without any that is kept and one
\* with other entities that is dropped although its title is close
C18_Witness ==
    /\ calc.op = "shortlist"
    /\ _extract_entities(calc.target.title) # {}
    /\ \E i, j \in DOMAIN calc.candidates :
          /\ _extract_entities(calc.candidates[i].title) = {}
          /\ Shortlisted(calc.candidates[i])
          /\ PassesOtherChecks(calc.target, calc.candidates[j])
          /\ ~Shortlisted(calc.candidates[j])

----------------------------------------------------------------------------
(* Properties of process_alerts_queue (SpecAlerts) *)

\* the step makes a send_telegram_message call for the row
MessageFor(row) == messages'[row.id].calls > messages[row.id].calls

HasOpp(row) == row.arb_id # <<>> /\ OppsWithId(row.arb_id[1]) # {}

OppEv(row) == (CHOOSE o \in OppsWithId(row.arb_id[1]) : TRUE).metrics.ev_usd[1]

PrevSendTime(row) == IF row.sent_at # <<>> THEN row.sent_at ELSE row.last_sent

\* no previous send time, or at least cooldown_sec seconds since it
CooldownTest(row, t, cooldown_sec) ==
    PrevSendTime(row) = <<>> \/ t - PrevSendTime(row)[1] >= cooldown_sec

\* no last_value, or the EV moved by at least min_ev_change
ChangeTest(row, ev, min_ev_change) ==
    row.last_value = <<>> \/ Abs(ev - row.last_value[1]) >= min_ev_change

\* C19: a run sends for a pending row only if the row passes the cooldown test
\* (no previous send time, or cooldown_sec seconds passed) and the change test
\* (no last_value, or |ev_usd - last_value| >= min_ev_change); a row that fails
\* either test gets no message and stays pending.
C19_SendOnlyWhenDue ==
    [][\A i \in DOMAIN alerts_queue :
         LET row == alerts_queue[i]
             passes == /\ CooldownTest(row, now, alert_run'.cooldown_sec)
                       /\ ChangeTest(row, OppEv(row), alert_run'.min_ev_change)
         IN /\ MessageFor(row) => (row.status = "pending" /\ HasOpp(row) /\ passes)
            /\ (row.status = "pending" /\ HasOpp(row) /\ ~passes) =>
                  (~MessageFor(row) /\ alerts_queue'[i] = row)]_vars

\* one run with a non-zero cooldown and threshold took both rows: a1, sent
\* to before, was held back and left as it was; a2, never sent to, got its
\* message
C19_Witness ==
    /\ alert_run.pc = "returned"
    /\ alert_run.rows = {1, 2}
    /\ alert_run.cooldown_sec > 0
    /\ alert_run.min_ev_change > 0
    /\ PrevSendTime(alert_run.before[1]) # <<>>
    /\ alert_run.before[1].last_value # <<>>
    /\ messages["a1"].calls = 0
    /\ alerts_queue[1] = alert_run.before[1]
    /\ alerts_queue[1].status = "pending"
    /\ alert_run.before[2].status = "pending"
    /\ messages["a2"].calls = 1
    /\ alerts_queue[2].sent_at = <<now>>

----------------------------------------------------------------------------
(* Properties of rate_limit.acquire (SpecRateLimit) *)

\* C21: for clients sharing one key, the stored token count stays within
\* [0, limit]; every returned acquire has taken one whole token out of what
\* the bucket held and refilled; starting from the full bucket the
\* (limit+1)-th acquire returns no earlier than period/limit seconds later;
\* and once the bucket was idle for period seconds, limit acquires go through
\* without sleeping.
C21_TokenBucket ==
    rl.clock >= 0 /\ "cfg" \in DOMAIN rl =>
        /\ rl.bucket # <<>> =>
              /\ rl.bucket[1].tokens >= 0
              /\ rl.bucket[1].tokens <= RlCapacity
              /\ rl.bucket[1].tokens + RlOneToken * rl.returned
                    <= RlCapacity + rl.cfg.limit * rl.bucket[1].ts
        /\ rl.next_at # <<>> => rl.next_at[1] * rl.cfg.limit >= rl.cfg.period
        /\ \A c \in RlClients :
              rl.client[c].pc = "sleeping" =>
                  /\ ~rl.client[c].idle
                  /\ rl.client[c].since >= rl.cfg.limit

\* the burst was used up at once, a client had to sleep, the (limit+1)-th
\* acquire returned, and after a full period of rest a new burst began
C21_Witness ==
    /\ "cfg" \in DOMAIN rl
    /\ rl.returned = MaxRlReturns
    /\ rl.burst_at = <<0>>
    /\ rl.next_at # <<>>
    /\ rl.next_at[1] * rl.cfg.limit >= rl.cfg.period
    /\ rl.bucket # <<>>
    /\ rl.bucket[1].ts >= rl.next_at[1] + rl.cfg.period
    /\ rl.since_idle = 1

----------------------------------------------------------------------------
(* Properties of the end-date window *)

\* C22: a candidate whose end date differs from the target's by more than 60
\* days, in either direction, is not returned by shortlist_candidates (end
\* dates are in half days).
C22_EndDateWindow ==
    calc.op = "shortlist" =>
        \A i \in DOMAIN calc.candidates :
            LET c == calc.candidates[i]
            IN (/\ calc.target.end_date # <<>>
                /\ c.end_date # <<>>
                /\ Abs(calc.target.end_date[1] - c.end_date[1]) > 2 * MaxDays)
               => ~Shortlisted(c)

----------------------------------------------------------------------------
(* Properties of the price of an outcome (SpecScore) *)

\* the outcomes of the latest snapshots of the scored group's members
ScoredOutcomes ==
    {mo \in Range(calc.group.market_ids) \X (1..2) :
        /\ market_snapshots[mo[1]] # <<>>
        /\ mo[2] \in DOMAIN market_snapshots[mo[1]][1].outcomes}

OutcomeAt(mo) == market_snapshots[mo[1]][1].outcomes[mo[2]]

\* whichever of mid and prob the outcome carries, <<>> when neither
StatedPrice(o) == IF o.mid # <<>> THEN o.mid ELSE o.prob

----------------------------------------------------------------------------
(* Properties of the trade size (SpecScore) *)

MemberSnapshot(market_id) == market_snapshots[market_id][1]

\* C24: every dutch_book row for a pair (A, B) carries
\* size_usd = min(bucket, fillable(A), fillable(B)) for one of the size
\* buckets, that size is > 0, and the effective prices of both legs are
\* _leg_effective_price at exactly that size.
C24_SizeIsClampedFill ==
    calc.op = "dutch" =>
        \A r \in DOMAIN calc.rows :
            LET row == calc.rows[r]
                a == MemberSnapshot(row.legs[1].market_id)
                b == MemberSnapshot(row.legs[2].market_id)
            IN \E k \in DOMAIN size_candidates :
                  LET sz == Min(size_candidates[k], Min(_fillable_usd(a), _fillable_usd(b)))
                  IN /\ row.metrics.size_usd = sz
                     /\ sz > 0
                     /\ row.legs[1].effective =
                           <<_leg_effective_price(row.legs[1].price_mid, sz,
                                                  TakerBps(platform_fees, a.fees),
                                                  _age_seconds(a.ts, now))>>
                     /\ row.legs[2].effective =
                           <<_leg_effective_price(row.legs[2].price_mid, sz,
                                                  TakerBps(platform_fees, b.fees),
                                                  _age_seconds(b.ts, now))>>

\* a pair whose sides can fill 250 USD and 600 USD: the 100 USD bucket
\* trades 100 USD, the larger ones trade 250 USD
C24_Witness ==
    /\ calc.op = "dutch"
    /\ \E r1, r2 \in DOMAIN calc.rows :
          /\ calc.rows[r1].legs[1].market_id = calc.rows[r2].legs[1].market_id
          /\ calc.rows[r1].legs[2].market_id = calc.rows[r2].legs[2].market_id
          /\ _fillable_usd(MemberSnapshot(calc.rows[r1].legs[1].market_id)) = 5
          /\ _fillable_usd(MemberSnapshot(calc.rows[r1].legs[2].market_id)) = 12
          /\ calc.rows[r1].metrics.size_usd = 2
          /\ calc.rows[r2].metrics.size_usd = 5

----------------------------------------------------------------------------
(* Properties of the size buckets (SpecOpp) *)

\* C25: a compute_opportunities run over an empty opportunity table stores
\* one record for every viable size bucket of every qualifying pair: each row
\* that the Dutch-book builder hands over for a bucket becomes a record of
\* its own, none is turned away as a duplicate of another bucket's row.
C25_RecordPerViableBucket ==
    \A w \in Workers :
        (run[w].pc = "returned" /\ run[w].order = 1 /\ ~overlapped) =>
            /\ run[w].conflicts = 0
            /\ run[w].inserted = Cardinality(arb_opportunities)

----------------------------------------------------------------------------
(* Properties of upsert_group (SpecHistory) *)

RowsTitled(table, title) == {i \in DOMAIN table : table[i].title = title}

\* C26: upsert_group only appends: a step that changes the groups table adds
\* exactly one row, holding the market ids of the recompute and the consensus
\* over them at that moment, and leaves every earlier row as it was; so the
\* table holds one row per successful recompute of a seed.
C26_AppendOnlyHistory ==
    [][/\ groups' # groups =>
            /\ Len(groups') = Len(groups) + 1
            /\ SubSeq(groups', 1, Len(groups)) = groups
            /\ groups'[Len(groups')].title = SeedTitle(call'.seed)
            /\ groups'[Len(groups')].market_ids = call'.group
            /\ groups'[Len(groups')].avg_prob = vwap_across_markets(call'.group)
       /\ \A m \in GroupingIds :
            Cardinality(RowsTitled(groups', SeedTitle(m))) = recomputed'[m]]_vars

\* the same seed was recomputed twice and has two rows, the first of them
\* untouched by the second recompute
C26_Witness ==
    \E m \in GroupingIds :
        /\ recomputed[m] = 2
        /\ Cardinality(RowsTitled(groups, SeedTitle(m))) = 2
        /\ Len(groups) = 2

----------------------------------------------------------------------------
(* Properties of the repeated pipeline (SpecPipeline) *)

\* C27: when recompute_all and compute_opportunities are run a second time
\* over the same markets, snapshots, embeddings, overrides, fees and
\* snapshot ages, the second compute_opportunities run adds no row to
\* arb_opportunities.
C27_PipelineRepeatAddsNothing ==
    (BatchesDone = 2 /\ run["w2"].pc # "idle") =>
        /\ run["w2"].inserted = 0
        /\ \A r \in arb_opportunities : r.opp_hash[2].group_id <= 2

----------------------------------------------------------------------------
(* Properties of single-market groups (SpecSingleton) *)

\* C28: a group whose market_ids holds a single market never yields an
\* opportunity, whatever snapshots are inserted and whenever the groups are
\* recomputed and scored: every stored opportunity belongs to a group of at
\* least two markets.
C28_SingletonYieldsNothing ==
    \A r \in arb_opportunities :
        \A i \in DOMAIN groups :
            groups[i].id = r.opp_hash[2].group_id => Len(groups[i].market_ids) >= 2

----------------------------------------------------------------------------
(* Properties of overlapping process_alerts_queue runs (SpecOverlap) *)

\* C29: when two process_alerts_queue runs overlap on the same alerts_queue
\* table, no pending row causes more than one Telegram message.
C29_OneMessagePerRow == \A id \in DOMAIN messages : messages[id].calls <= 1

----------------------------------------------------------------------------
(* The consensus list and letter case (SpecVwap) *)

\* C30: the consensus list vwap_across_markets returns has at most one row
\* per label compared case-insensitively, and the case-insensitive lookup of
\* the scorer (_vwap_lookup) returns the consensus taken over all cluster
\* markets that quote the label in any letter case.
C30_ConsensusIgnoresCase ==
    VwapCalled =>
        /\ \A i, j \in DOMAIN calc.out :
              Lower(calc.out[i].label) = Lower(calc.out[j].label) => i = j
        /\ \A label \in {"YES", "NO"} :
              LET same == {l \in VwapLabels : Lower(l) = Lower(label)}
                  p == SumOver(same, [l \in same |-> WeightedSum(calc.market_ids, l)])
                  w == SumOver(same, [l \in same |-> WeightSum(calc.market_ids, l)])
                  hit == _vwap_lookup(calc.out, label)
              IN w > 0 => hit # <<>> /\ hit[1] * w = p * hit[2]

====
